---- MODULE Spec2Model ----
(***************************************************************************)
(* Model of the mp-sentinel audit pipeline: the audit orchestrator         *)
(* (services/ai/index.ts), its persistent cache (services/ai/cache.ts),    *)
(* the retry utility (utils/retry.ts) and the response parser              *)
(* (utils/parser.ts).                                                      *)
(***************************************************************************)
EXTENDS Integers, Sequences, FiniteSets, TLC

(***************************************************************************)
(* Bounds of the model.                                                    *)
(***************************************************************************)
\* largest number of input files of one run
NumFiles == 3
\* largest maxConcurrency argument of one run
MaxConc == 2
\* longest configured fallback provider chain
MaxFallbacks == 1
\* largest maxAttempts option given to withRetry
MaxAttemptsOpt == 3
\* largest number of key components in which two cache-key inputs differ
MaxChanges == 2
\* longest issues array of a provider reply
MaxIssues == 2
\* largest number of files the diff collector hands to a review run
MaxReviewFiles == 2
\* longest list of candidate paths given to the diff collector
MaxCandidates == 3
\* largest number of lines of one patch
MaxPatchLines == 2
\* largest maxFiles guardrail
MaxGuardFiles == 2
\* largest maxDiffLines guardrail
MaxGuardLines == 2
\* longest list of candidate paths given to the file filter
MaxFilterPaths == 3
\* largest number of tokens of a content given to the redactor
MaxTokens == 3

(***************************************************************************)
(* Program constants.                                                      *)
(***************************************************************************)
\* withRetry's default maxAttempts, the value every audit call runs with
DefaultMaxAttempts == 3

CACHE_VERSION == <<"1">>

FailedParseMsg == "Failed to parse AI response"
InvalidFormatMsg == "Invalid AI response format"
ErrorAuditingMsg == "Error auditing file"
NoMsg == ""

(***************************************************************************)
(* Strings are sequences of characters; join and concatenation are         *)
(* computed character by character.                                        *)
(***************************************************************************)
RECURSIVE Join(_, _)
Join(parts, sep) ==
  IF Len(parts) = 0 THEN <<>>
  ELSE IF Len(parts) = 1 THEN parts[1]
  ELSE parts[1] \o sep \o Join(Tail(parts), sep)

Min(a, b) == IF a < b THEN a ELSE b

(***************************************************************************)
(* Errors thrown by a provider call.  The message is a sequence of words;  *)
(* String.includes is membership of a word.                                *)
(***************************************************************************)
Includes(message, word) == \E k \in DOMAIN message : message[k] = word

NoError == [isError |-> FALSE, name |-> "none", message |-> <<>>]
Err429 == [isError |-> TRUE, name |-> "Error", message |-> <<"HTTP", "429", "Too Many Requests">>]
Err503 == [isError |-> TRUE, name |-> "Error", message |-> <<"503", "Service Unavailable">>]
Err500 == [isError |-> TRUE, name |-> "Error", message |-> <<"500", "Internal Server Error">>]
Err504 == [isError |-> TRUE, name |-> "Error", message |-> <<"504", "Gateway", "Timeout">>]
ErrConnReset == [isError |-> TRUE, name |-> "Error", message |-> <<"ECONNRESET">>]
ErrAbort == [isError |-> TRUE, name |-> "AbortError", message |-> <<"aborted">>]
ErrInvalidKey == [isError |-> TRUE, name |-> "Error", message |-> <<"Invalid", "API", "key">>]
ErrStringValue == [isError |-> FALSE, name |-> "string", message |-> <<"429">>]

\* every error shape a call may throw
ErrorPool == {Err429, Err503, Err500, Err504, ErrConnReset, ErrAbort, ErrInvalidKey, ErrStringValue}
\* the errors the providers of an audit run throw
ProviderErrors == {Err429, ErrInvalidKey}

\* isRetryableError without the instanceof test
IsRetryableErrorAnyValue(error) ==
  \/ Includes(error.message, "429")
  \/ Includes(error.message, "503")
  \/ Includes(error.message, "ECONNRESET")
  \/ error.name = "AbortError"

IsRetryableError(error) ==
  IF ~error.isError THEN FALSE
  ELSE \/ Includes(error.message, "429")
       \/ Includes(error.message, "503")
       \/ Includes(error.message, "ECONNRESET")
       \/ error.name = "AbortError"

(***************************************************************************)
(* withRetry: what the catch block decides after attempt `attempt` failed  *)
(* with `error`.                                                           *)
(***************************************************************************)
RetryDecisionNoCap(error, attempt, maxAttempts) ==
  IF ~IsRetryableError(error) THEN "throw" ELSE "retry"

RetryDecision(error, attempt, maxAttempts) ==
  IF ~IsRetryableError(error) \/ attempt = maxAttempts THEN "throw" ELSE "retry"

(***************************************************************************)
(* AuditResult values and provider reply texts.  A text is described by    *)
(* what JSON.parse and the extraction regex make of it.                    *)
(***************************************************************************)
NoResult == [status |-> "none", message |-> NoMsg, hasIssues |-> FALSE, issues |-> <<>>]

MkResult(status, message) ==
  [status |-> status, message |-> message, hasIssues |-> TRUE, issues |-> <<>>]

\* kind: "object"    the text is one JSON object (obj)
\*       "nonobject" the text is a JSON number, string, boolean or array
\*       "null"      the text is the JSON literal null
\*       "embedded"  prose around one parsable {...} object (obj)
\*       "garbage"   no JSON value and no parsable {...}
MkText(fenced, kind, obj) == [fenced |-> fenced, kind |-> kind, obj |-> obj]

NoText == MkText(FALSE, "none", NoResult)
GarbageText == MkText(FALSE, "garbage", NoResult)

CleanJSON(text) == [text EXCEPT !.fenced = FALSE]

\* JSON.parse succeeds on the whole text
JsonParses(text) == ~text.fenced /\ text.kind \in {"object", "nonobject", "null"}

InvalidFormatResult == MkResult("FAIL", InvalidFormatMsg)
FailedParseResult == MkResult("FAIL", FailedParseMsg)

\* parseAuditResponse reporting a FAIL verdict as ERROR
ParseAuditResponseFailAsError(responseText) ==
  LET cleaned == CleanJSON(responseText) IN
  IF cleaned.kind \in {"object", "embedded"} /\ cleaned.obj.status \in {"PASS", "FAIL"}
  THEN [cleaned.obj EXCEPT !.status = IF @ = "FAIL" THEN "ERROR" ELSE @]
  ELSE FailedParseResult

ParseAuditResponse(responseText) ==
  LET cleaned == CleanJSON(responseText) IN
  IF JsonParses(cleaned) /\ cleaned.kind # "null"
  THEN IF cleaned.kind = "nonobject" \/ cleaned.obj.status \notin {"PASS", "FAIL"}
       THEN InvalidFormatResult
       ELSE cleaned.obj
  ELSE IF cleaned.kind = "embedded"
       THEN cleaned.obj
       ELSE FailedParseResult

JsonStringify(result) == MkText(FALSE, "object", result)

(***************************************************************************)
(* The persistent cache: one entry per key.                                *)
(***************************************************************************)
\* exists: readFile resolves with the text
MissingEntry == [exists |-> FALSE, text |-> NoText]
FileEntry(text) == [exists |-> TRUE, text |-> text]

\* createHash("sha256").update(source).digest("hex"), taken as collision
\* free: two sources have the same digest exactly when they are equal
Sha256Hex(source) == source

KeySeparator == <<":", ":">>

BuildAuditCacheKey(input) ==
  Sha256Hex(Join(<<CACHE_VERSION, input.provider, input.model, input.promptVersion,
                   input.toolVersion, input.filePath, input.systemPrompt,
                   input.payload>>, KeySeparator))

CacheMiss == [hit |-> FALSE, result |-> NoResult]

\* readFile rejects for an entry that does not exist (MissingEntry stands
\* for every entry readFile cannot read: ENOENT, EACCES, EIO)
ReadCachedAuditResult(entry) ==
  IF ~entry.exists THEN CacheMiss
  ELSE LET result == ParseAuditResponse(entry.text) IN
       IF result.status = "ERROR" /\ result.message = FailedParseMsg
       THEN CacheMiss
       ELSE [hit |-> TRUE, result |-> result]

WriteCachedAuditResult(store, key, result) ==
  [store EXCEPT ![key] = FileEntry(JsonStringify(result))]

(***************************************************************************)
(* The audit orchestrator: auditFilesWithConcurrency and auditFile.        *)
(***************************************************************************)
PathChars == <<"a", "b", "c", "d", "e">>

FileAt(f) == [path |-> <<PathChars[f]>>, content |-> <<"x">>]

\* the provider configuration and prompt of the run
RunProvider == <<"g">>
RunModel == <<"m">>
RunPromptVersion == <<"v">>
RunToolVersion == <<"t">>
RunSystemPrompt == <<"s">>

KeyOfFile(file) ==
  BuildAuditCacheKey([provider |-> RunProvider, model |-> RunModel,
                      promptVersion |-> RunPromptVersion, systemPrompt |-> RunSystemPrompt,
                      filePath |-> file.path, payload |-> file.content,
                      toolVersion |-> RunToolVersion])

CacheKeys == {KeyOfFile(FileAt(f)) : f \in 1..NumFiles}

InitialEntries ==
  {MissingEntry, FileEntry(GarbageText), FileEntry(JsonStringify(MkResult("PASS", NoMsg)))}

\* the replies a provider call may resolve with
ReplyTexts ==
  {MkText(FALSE, "object", MkResult("PASS", NoMsg)),
   MkText(TRUE, "object", MkResult("FAIL", NoMsg)),
   MkText(FALSE, "embedded", MkResult("ERROR", NoMsg))}

FallbackNames == <<"openai", "anthropic", "gemini">>

\* the chains parseFallbackChain can return
FallbackChains == {[j \in 1..k |-> FallbackNames[((j - 1) % 3) + 1]] : k \in 0..MaxFallbacks}

VARIABLES
  files,               \* the input files of the run
  maxConcurrency,      \* the maxConcurrency argument
  cacheEnabled,        \* config.cacheEnabled !== false
  fallbackChain,       \* parseFallbackChain(config.ai.fallbackProvider)
  apiKeyPresent,       \* the environment holds the primary provider's key
  providerConfigCache, \* module-level singleton: "null" or "set"
  providerInstance,    \* module-level singleton: "null" or "set"
  mainPc,              \* position of auditFilesWithConcurrency
  i,                   \* the batch loop index
  task,                \* the per-file async closure of the current batch
  results,             \* results: FileAuditResult[]
  failedFiles,         \* failedFiles
  cache,               \* the cache directory: key -> entry
  rMax,                \* withRetry: the maxAttempts option
  rAttempt,            \* withRetry: the loop variable attempt
  rPc,                 \* withRetry: position
  rLog,                \* withRetry: the outcome of every invocation of fn so far
  rOutcome,            \* withRetry: what it returned or threw
  kA,                  \* buildAuditCacheKey: the input of one audit
  kB,                  \* buildAuditCacheKey: the input of another audit
  kChanges             \* number of components changed between kA and kB

orchVars == <<files, maxConcurrency, cacheEnabled, fallbackChain, apiKeyPresent,
              providerConfigCache, providerInstance, mainPc, i, task, results,
              failedFiles, cache>>

retryVars == <<rMax, rAttempt, rPc, rLog, rOutcome>>

keyVars == <<kA, kB, kChanges>>


NFiles == Len(files)

IdleTask ==
  [pc |-> "pending", prov |-> 0, attempt |-> 0, calls |-> 0, primaryError |-> NoError,
   result |-> NoResult, cached |-> FALSE, ok |-> FALSE, source |-> "none", wrote |-> FALSE,
   called |-> FALSE]

JoinedTask == [IdleTask EXCEPT !.pc = "joined"]

\* files.slice(i, i + maxConcurrency), as 1-based indices
BatchOffByOne(from, size, n) == (from + 1)..Min(from + size + 1, n)

Batch(from, size, n) == (from + 1)..Min(from + size, n)

InFlight == Cardinality({f \in 1..NFiles : task[f].pc = "calling"})

\* line 213: cacheEnabled && result.status !== "ERROR"
ShouldWriteCacheNever(enabled, result) == FALSE

ShouldWriteCache(enabled, result) == enabled /\ result.status # "ERROR"

\* line 133: fallbackChain.length > 0 && isRetryableError(primaryError)
ShouldFallbackAnyError(chain, error) == Len(chain) > 0

ShouldFallback(chain, error) == Len(chain) > 0 /\ IsRetryableError(error)

\* the closure's return value once the audit result is known (lines 210-225)
\* the closure has returned: its promise is settled
Settled(t, result, cached, ok, source, wrote) ==
  [t EXCEPT !.pc = "settled", !.prov = 0, !.attempt = 0, !.calls = 0,
            !.result = result, !.cached = cached, !.ok = ok, !.source = source,
            !.wrote = wrote]

\* auditFile has returned `result`: its locals (provider position, attempt,
\* calls made) are gone, and the closure writes the cache or returns
AfterAudit(t, result) ==
  IF ShouldWriteCache(cacheEnabled, result)
  THEN [t EXCEPT !.pc = "writing", !.prov = 0, !.attempt = 0, !.calls = 0,
                 !.result = result, !.source = "live"]
  ELSE Settled(t, result, FALSE, TRUE, "live", FALSE)

\* auditFile's catch block falls through to the ERROR result (lines 140-145)
ErrorResult == MkResult("ERROR", ErrorAuditingMsg)

\* a provider call starts: withRetry's first attempt
StartCall(t, prov) ==
  [t EXCEPT !.pc = "calling", !.prov = prov, !.attempt = 1, !.calls = t.calls + 1,
            !.called = TRUE]

\* tryFallbackProviders from chain position j on (lines 72-89): a provider
\* whose configuration or construction throws (configOk[j] false) is
\* skipped by the catch block; past the end of the chain it returns null
\* and auditFile returns the ERROR result
RECURSIVE TryFallbackProviders(_, _, _)
TryFallbackProviders(t, j, configOk) ==
  IF j > Len(fallbackChain) THEN AfterAudit(t, ErrorResult)
  ELSE IF ~configOk[j] THEN TryFallbackProviders(t, j + 1, configOk)
  ELSE StartCall(t, j)

\* withRetry threw `error` out of the call of provider t.prov (0: primary)
RetryThrows(t, error, configOk) ==
  IF t.prov = 0
  THEN LET t1 == [t EXCEPT !.primaryError = error] IN
       IF ShouldFallback(fallbackChain, error)
       THEN TryFallbackProviders(t1, 1, configOk)
       ELSE AfterAudit(t1, ErrorResult)
  ELSE TryFallbackProviders(t, t.prov + 1, configOk)

\* the cache-hit return value (lines 196-207)
CacheHitTaskLive(t, result) == Settled(t, result, FALSE, TRUE, "cache", FALSE)

CacheHitTask(t, result) == Settled(t, result, TRUE, TRUE, "cache", FALSE)

\* the synchronous start of one file's closure (lines 180-195, 210):
\* with the cache enabled it suspends in the cache read, otherwise in the
\* first provider call
BeginTaskNoRead(t) == StartCall(t, 0)

BeginTask(t) ==
  IF cacheEnabled THEN [t EXCEPT !.pc = "reading"] ELSE StartCall(t, 0)

StartBatch(tasks, from) ==
  [f \in DOMAIN tasks |->
     IF f \in Batch(from, maxConcurrency, NFiles) THEN BeginTask(tasks[f]) ELSE tasks[f]]

\* Promise.allSettled(batchPromises) resolves
AllSettledAny(from) ==
  \E f \in Batch(from, maxConcurrency, NFiles) : task[f].pc = "settled"

AllSettled(from) ==
  \A f \in Batch(from, maxConcurrency, NFiles) : task[f].pc = "settled"

FileAuditResult(f) ==
  [filePath |-> files[f].path, result |-> task[f].result, cached |-> task[f].cached]

RECURSIVE PushedStopAtFailure(_, _, _)
PushedStopAtFailure(from, to, wantOk) ==
  IF from > to THEN <<>>
  ELSE IF ~task[from].ok \/ task[from].result.status = "ERROR"
       THEN IF wantOk THEN <<>> ELSE <<files[from].path>>
       ELSE (IF wantOk THEN <<FileAuditResult(from)>> ELSE <<>>)
            \o PushedStopAtFailure(from + 1, to, wantOk)

\* lines 242-258: the settled closures of the batch, in batch order
RECURSIVE Pushed(_, _, _)
Pushed(from, to, wantOk) ==
  IF from > to THEN <<>>
  ELSE (IF task[from].ok = wantOk
        THEN <<IF wantOk THEN FileAuditResult(from) ELSE files[from].path>>
        ELSE <<>>) \o Pushed(from + 1, to, wantOk)

\* the parts of the state a specification does not use
NoOutcome == [kind |-> "none", index |-> 0, error |-> NoError]

RetryIdle ==
  /\ rMax = 0 /\ rAttempt = 0 /\ rPc = "idle" /\ rLog = <<>> /\ rOutcome = NoOutcome

KeyFields ==
  {"provider", "model", "promptVersion", "systemPrompt", "filePath", "payload", "toolVersion"}

NoKeyInput == [fld \in KeyFields |-> <<>>]

KeyIdle == kA = NoKeyInput /\ kB = NoKeyInput /\ kChanges = 0

OrchIdle ==
  /\ files = <<>> /\ maxConcurrency = 1 /\ cacheEnabled = FALSE /\ fallbackChain = <<>>
  /\ apiKeyPresent = FALSE /\ providerConfigCache = "null" /\ providerInstance = "null"
  /\ mainPc = "idle" /\ i = 0 /\ task = <<>> /\ results = <<>> /\ failedFiles = <<>>
  /\ cache = [k \in CacheKeys |-> MissingEntry]

(***************************************************************************)
(* The response normalizer and the cache round trip on their own           *)
(* (utils/parser.ts, services/ai/cache.ts).                                *)
(***************************************************************************)
VARIABLES
  nText,               \* parseAuditResponse: the reply text of a live call
  nResult,             \* the AuditResult auditFile returned for it
  nStore,              \* the cache directory: key -> entry
  nRead,               \* what readCachedAuditResult returned for the key
  nPc                  \* position: "idle", "input", "parsed", "written", "read"

normVars == <<nText, nResult, nStore, nRead, nPc>>

NormKey == KeyOfFile(FileAt(1))

NormIdle ==
  /\ nText = NoText /\ nResult = NoResult /\ nStore = [k \in {NormKey} |-> MissingEntry]
  /\ nRead = CacheMiss /\ nPc = "idle"

(***************************************************************************)
(* The review command: runReview (cli/review.ts) and the process exit code *)
(* set by run() (index.ts).                                                *)
(***************************************************************************)
VARIABLES
  vSel,                \* CLI values: which target selectors are given
  vFormat,             \* values.format ?? MP_SENTINEL_FORMAT ?? "console"
  vDryRun,             \* options.dryRun
  vAiSetting,          \* values.ai ?? MP_SENTINEL_AI ?? config.ai.enabled: "on", "off", "unset"
  vOverride,           \* MP_SENTINEL_TOKEN_LIMIT || config.ai.tokenLimit (0: none)
  vPc,                 \* position of runReview
  vStages,             \* the pipeline stages started so far
  vPatches,            \* diffResult.files: path and raw patch
  vEstimated,          \* the payloads handed to generatePayloadSummary
  vSent,               \* the payloads handed to auditFilesWithConcurrency
  vTotal,              \* the estimated total tokens
  vLimit,              \* the resolved token limit (0: not yet resolved)
  vResults,            \* auditResults
  vErrors,             \* runtimeErrors
  vReport,             \* status of the rendered report ("none": no report)
  vExit                \* process.exitCode (-1: not yet set)

reviewVars == <<vSel, vFormat, vDryRun, vAiSetting, vOverride, vPc, vStages, vPatches,
                vEstimated, vSent, vTotal, vLimit, vResults, vErrors, vReport, vExit>>

NoSelectors == [staged |-> FALSE, commit |-> FALSE, range |-> FALSE, files |-> FALSE]

ReviewIdle ==
  /\ vSel = NoSelectors /\ vFormat = "console" /\ vDryRun = FALSE /\ vAiSetting = "unset"
  /\ vOverride = 0 /\ vPc = "idle" /\ vStages = {} /\ vPatches = <<>>
  /\ vEstimated = <<>> /\ vSent = <<>> /\ vTotal = 0 /\ vLimit = 0 /\ vResults = <<>>
  /\ vErrors = <<>> /\ vReport = "none" /\ vExit = -1

(***************************************************************************)
(* The diff collector: collectReviewInput (utils/git.ts).                  *)
(***************************************************************************)
VARIABLES
  cInput,              \* options.filePaths
  cMaxFiles,           \* options.maxFiles
  cMaxDiffLines,       \* options.maxDiffLines
  cMaxChars,           \* options.maxCharsPerFile
  cFiles,              \* uniqueFiles
  cIdx,                \* position of the loop over uniqueFiles.slice(0, maxFiles)
  cAccepted,           \* accepted
  cSkipped,            \* skipped
  cTotal,              \* totalChangedLines
  cPc                  \* position of collectReviewInput

collectVars == <<cInput, cMaxFiles, cMaxDiffLines, cMaxChars, cFiles, cIdx, cAccepted,
                 cSkipped, cTotal, cPc>>

CollectIdle ==
  /\ cInput = <<>> /\ cMaxFiles = 1 /\ cMaxDiffLines = 1 /\ cMaxChars = 1 /\ cFiles = <<>>
  /\ cIdx = 0 /\ cAccepted = <<>> /\ cSkipped = <<>> /\ cTotal = 0 /\ cPc = "idle"

(***************************************************************************)
(* The file filter: FileHandler.filterPathsWithIgnores.                    *)
(***************************************************************************)
VARIABLES
  fPaths,              \* paths, as given by the caller
  fIgnore,             \* this.ignoreFilter: "null" or "rules"
  fAccepted,           \* FileFilterResult.accepted
  fRejected,           \* FileFilterResult.rejected
  fPc                  \* position of filterPathsWithIgnores

filterVars == <<fPaths, fIgnore, fAccepted, fRejected, fPc>>

FilterIdle ==
  /\ fPaths = <<>> /\ fIgnore = "null" /\ fAccepted = <<>> /\ fRejected = <<>>
  /\ fPc = "idle"

(***************************************************************************)
(* The secret redactor: SecurityService.sanitizeContent.                   *)
(***************************************************************************)
VARIABLES
  sInput,              \* content
  sOnce,               \* sanitizeContent(content)
  sTwice,              \* sanitizeContent(sanitizeContent(content).content)
  sPc                  \* how often the redactor has run

redactVars == <<sInput, sOnce, sTwice, sPc>>

NoSanitization == [content |-> <<>>, redactedCount |-> 0]

RedactIdle ==
  /\ sInput = <<>> /\ sOnce = NoSanitization /\ sTwice = NoSanitization /\ sPc = "idle"

(***************************************************************************)
(* The loop of collectReviewInput seen file by file, with the diff of the  *)
(* file in sight.                                                          *)
(***************************************************************************)
VARIABLES
  pMaxDiffLines,       \* options.maxDiffLines
  pMaxChars,           \* options.maxCharsPerFile
  pCount,              \* number of files evaluated so far
  pBefore,             \* totalChangedLines before the last file was evaluated
  pPatch,              \* patch of the last file
  pOut,                \* what the loop body made of the last file
  pTotal               \* totalChangedLines

loopVars == <<pMaxDiffLines, pMaxChars, pCount, pBefore, pPatch, pOut, pTotal>>

NoReview ==
  [reason |-> "idle", finalPatch |-> <<>>, additions |-> 0, deletions |-> 0,
   changedLines |-> 0, truncated |-> FALSE, total |-> 0]

LoopIdle ==
  /\ pMaxDiffLines = 1 /\ pMaxChars = 1 /\ pCount = 0 /\ pBefore = 0 /\ pPatch = <<>>
  /\ pOut = NoReview /\ pTotal = 0

(***************************************************************************)
(* warnIfTokenLimitExceeded (utils/tokens.ts) called on its own.           *)
(***************************************************************************)
VARIABLES
  bTotal,              \* total: the estimated tokens
  bLimit,              \* limit: the provider's limit
  bExceeded,           \* the value returned
  bWarned,             \* whether the near-limit warning was logged
  bPc                  \* "start", "done"

budgetVars == <<bTotal, bLimit, bExceeded, bWarned, bPc>>

BudgetIdle ==
  /\ bTotal = 0 /\ bLimit = 1 /\ bExceeded = FALSE /\ bWarned = FALSE /\ bPc = "start"

(***************************************************************************)
(* auditFile (services/ai/index.ts 117-147) called on its own for one      *)
(* file, with tryFallbackProviders and withRetry.                          *)
(***************************************************************************)
VARIABLES
  aChain,              \* the fallbackChain argument
  aInitOk,             \* getProvider() returns a provider (FALSE: it throws)
  aud                  \* the call of auditFile: see IdleAudit

auditVars == <<aChain, aInitOk, aud>>

MaxChain == 2

\* pc:           "start", "calling", "backoff", "returned", "threw"
\* prov:         the provider being called (0: primary, j: aChain[j])
\* attempt:      withRetry's loop variable
\* calls:        generateContent invocations so far, per provider
\* unavailable:  the fallbacks whose configuration or construction threw
\* primaryError: what withRetry threw for the primary provider
\* reply:        the response handed to parseAuditResponse
\* replyFrom:    the provider that resolved with it (-1: none)
\* result:       the value auditFile returned
IdleAudit ==
  [pc |-> "start", prov |-> 0, attempt |-> 0, calls |-> [j \in 0..MaxChain |-> 0],
   unavailable |-> {}, primaryError |-> NoError, reply |-> NoText, replyFrom |-> -1,
   result |-> NoResult]

AuditIdle == aChain = <<>> /\ aInitOk = TRUE /\ aud = IdleAudit

(***************************************************************************)
(* The provider calls of one batch, each withRetry(() =>                   *)
(* provider.generateContent(...)) with the AbortController and the timer   *)
(* generateContent creates for every invocation.                           *)
(***************************************************************************)
VARIABLES
  sib                  \* the calls of the batch: see IdleSibling

timeoutVars == <<sib>>

NumSiblings == 2

\* pc:      "fetching", "sleeping" (withRetry's backoff), "resolved",
\*          "rejected" (withRetry threw)
\* attempt: withRetry's loop variable
\* timer:   "armed" (setTimeout pending), "cleared"
\* aborts:  the invocations of this call aborted by their timer so far
\* error:   what withRetry threw
IdleSibling ==
  [pc |-> "fetching", attempt |-> 1, timer |-> "armed", aborts |-> 0, error |-> NoError]

TimeoutIdle == sib = [c \in 1..NumSiblings |-> IdleSibling]

(***************************************************************************)
(* Several audits of the same file under the same cache key: the closure   *)
(* of auditFilesWithConcurrency (index.ts 183-225) run by processes that   *)
(* share the cache directory, or for a file listed twice.                  *)
(***************************************************************************)
VARIABLES
  wr,                  \* the audits: see IdleWriter
  wEntry,              \* the cache entry of the key
  wLog                 \* the results written under the key, in order

raceVars == <<wr, wEntry, wLog>>

NumWriters == 3

\* pc: "reading", "calling", "writing", "done"; result: the audit's result
IdleWriter == [pc |-> "reading", result |-> NoResult, cached |-> FALSE]

RaceIdle == wr = [w \in 1..NumWriters |-> IdleWriter] /\ wEntry = MissingEntry /\ wLog = <<>>

(***************************************************************************)
(* All variables; for every component the variables of the others and      *)
(* their state while that component runs alone.                            *)
(***************************************************************************)
vars == <<orchVars, retryVars, keyVars, normVars, reviewVars, collectVars, filterVars, redactVars, loopVars, budgetVars, auditVars, timeoutVars, raceVars>>

nonOrchVars == <<retryVars, keyVars, normVars, reviewVars, collectVars, filterVars, redactVars, loopVars, budgetVars, auditVars, timeoutVars, raceVars>>
nonRetryVars == <<orchVars, keyVars, normVars, reviewVars, collectVars, filterVars, redactVars, loopVars, budgetVars, auditVars, timeoutVars, raceVars>>
nonKeyVars == <<orchVars, retryVars, normVars, reviewVars, collectVars, filterVars, redactVars, loopVars, budgetVars, auditVars, timeoutVars, raceVars>>
nonNormVars == <<orchVars, retryVars, keyVars, reviewVars, collectVars, filterVars, redactVars, loopVars, budgetVars, auditVars, timeoutVars, raceVars>>
nonReviewVars == <<orchVars, retryVars, keyVars, normVars, collectVars, filterVars, redactVars, loopVars, budgetVars, auditVars, timeoutVars, raceVars>>
nonCollectVars == <<orchVars, retryVars, keyVars, normVars, reviewVars, filterVars, redactVars, loopVars, budgetVars, auditVars, timeoutVars, raceVars>>
nonFilterVars == <<orchVars, retryVars, keyVars, normVars, reviewVars, collectVars, redactVars, loopVars, budgetVars, auditVars, timeoutVars, raceVars>>
nonRedactVars == <<orchVars, retryVars, keyVars, normVars, reviewVars, collectVars, filterVars, loopVars, budgetVars, auditVars, timeoutVars, raceVars>>
nonLoopVars == <<orchVars, retryVars, keyVars, normVars, reviewVars, collectVars, filterVars, redactVars, budgetVars, auditVars, timeoutVars, raceVars>>
nonBudgetVars == <<orchVars, retryVars, keyVars, normVars, reviewVars, collectVars, filterVars, redactVars, loopVars, auditVars, timeoutVars, raceVars>>
nonAuditVars == <<orchVars, retryVars, keyVars, normVars, reviewVars, collectVars, filterVars, redactVars, loopVars, budgetVars, timeoutVars, raceVars>>
nonTimeoutVars == <<orchVars, retryVars, keyVars, normVars, reviewVars, collectVars, filterVars, redactVars, loopVars, budgetVars, auditVars, raceVars>>
nonRaceVars == <<orchVars, retryVars, keyVars, normVars, reviewVars, collectVars, filterVars, redactVars, loopVars, budgetVars, auditVars, timeoutVars>>

NonOrchIdle == RetryIdle /\ KeyIdle /\ NormIdle /\ ReviewIdle /\ CollectIdle /\ FilterIdle /\ RedactIdle /\ LoopIdle /\ BudgetIdle /\ AuditIdle /\ TimeoutIdle /\ RaceIdle
NonRetryIdle == OrchIdle /\ KeyIdle /\ NormIdle /\ ReviewIdle /\ CollectIdle /\ FilterIdle /\ RedactIdle /\ LoopIdle /\ BudgetIdle /\ AuditIdle /\ TimeoutIdle /\ RaceIdle
NonKeyIdle == OrchIdle /\ RetryIdle /\ NormIdle /\ ReviewIdle /\ CollectIdle /\ FilterIdle /\ RedactIdle /\ LoopIdle /\ BudgetIdle /\ AuditIdle /\ TimeoutIdle /\ RaceIdle
NonNormIdle == OrchIdle /\ RetryIdle /\ KeyIdle /\ ReviewIdle /\ CollectIdle /\ FilterIdle /\ RedactIdle /\ LoopIdle /\ BudgetIdle /\ AuditIdle /\ TimeoutIdle /\ RaceIdle
NonReviewIdle == OrchIdle /\ RetryIdle /\ KeyIdle /\ NormIdle /\ CollectIdle /\ FilterIdle /\ RedactIdle /\ LoopIdle /\ BudgetIdle /\ AuditIdle /\ TimeoutIdle /\ RaceIdle
NonCollectIdle == OrchIdle /\ RetryIdle /\ KeyIdle /\ NormIdle /\ ReviewIdle /\ FilterIdle /\ RedactIdle /\ LoopIdle /\ BudgetIdle /\ AuditIdle /\ TimeoutIdle /\ RaceIdle
NonFilterIdle == OrchIdle /\ RetryIdle /\ KeyIdle /\ NormIdle /\ ReviewIdle /\ CollectIdle /\ RedactIdle /\ LoopIdle /\ BudgetIdle /\ AuditIdle /\ TimeoutIdle /\ RaceIdle
NonRedactIdle == OrchIdle /\ RetryIdle /\ KeyIdle /\ NormIdle /\ ReviewIdle /\ CollectIdle /\ FilterIdle /\ LoopIdle /\ BudgetIdle /\ AuditIdle /\ TimeoutIdle /\ RaceIdle
NonLoopIdle == OrchIdle /\ RetryIdle /\ KeyIdle /\ NormIdle /\ ReviewIdle /\ CollectIdle /\ FilterIdle /\ RedactIdle /\ BudgetIdle /\ AuditIdle /\ TimeoutIdle /\ RaceIdle
NonBudgetIdle == OrchIdle /\ RetryIdle /\ KeyIdle /\ NormIdle /\ ReviewIdle /\ CollectIdle /\ FilterIdle /\ RedactIdle /\ LoopIdle /\ AuditIdle /\ TimeoutIdle /\ RaceIdle
NonAuditIdle == OrchIdle /\ RetryIdle /\ KeyIdle /\ NormIdle /\ ReviewIdle /\ CollectIdle /\ FilterIdle /\ RedactIdle /\ LoopIdle /\ BudgetIdle /\ TimeoutIdle /\ RaceIdle
NonTimeoutIdle == OrchIdle /\ RetryIdle /\ KeyIdle /\ NormIdle /\ ReviewIdle /\ CollectIdle /\ FilterIdle /\ RedactIdle /\ LoopIdle /\ BudgetIdle /\ AuditIdle /\ RaceIdle
NonRaceIdle == OrchIdle /\ RetryIdle /\ KeyIdle /\ NormIdle /\ ReviewIdle /\ CollectIdle /\ FilterIdle /\ RedactIdle /\ LoopIdle /\ BudgetIdle /\ AuditIdle /\ TimeoutIdle

Init ==
  /\ NonOrchIdle
  /\ files \in {[f \in 1..n |-> FileAt(f)] : n \in 0..NumFiles}
  /\ maxConcurrency \in 1..MaxConc
  /\ cacheEnabled \in BOOLEAN
  /\ fallbackChain \in FallbackChains
  /\ apiKeyPresent \in BOOLEAN
  /\ providerConfigCache = "null"
  /\ providerInstance = "null"
  /\ mainPc = "init"
  /\ i = 0
  /\ task = [f \in 1..Len(files) |-> IdleTask]
  /\ results = <<>>
  /\ failedFiles = <<>>
  /\ cache \in [CacheKeys -> InitialEntries]
  \* entries the run never looks at are left out
  /\ \A f \in 1..NumFiles :
       (f > Len(files) \/ ~cacheEnabled) => cache[KeyOfFile(FileAt(f))] = MissingEntry

\* lines 162-179: getProviderConfig throws without a key; otherwise the
\* loop starts its first batch
Start ==
  /\ mainPc = "init"
  /\ UNCHANGED <<files, maxConcurrency, cacheEnabled, fallbackChain, apiKeyPresent,
                 results, failedFiles, cache, i, nonOrchVars>>
  /\ IF ~apiKeyPresent
     THEN /\ mainPc' = "rejected"
          /\ UNCHANGED <<providerConfigCache, providerInstance, task>>
     ELSE /\ providerConfigCache' = "set"
          /\ IF NFiles = 0
             THEN mainPc' = "done" /\ UNCHANGED <<task, providerInstance>>
             ELSE /\ mainPc' = "batch"
                  /\ task' = StartBatch(task, 0)
                  /\ providerInstance' = IF cacheEnabled THEN providerInstance ELSE "set"

\* readCachedAuditResult resolves (lines 195-208)
ReadDone(f) ==
  /\ mainPc = "batch"
  /\ task[f].pc = "reading"
  /\ LET r == ReadCachedAuditResult(cache[KeyOfFile(files[f])]) IN
       IF r.hit
       THEN /\ task' = [task EXCEPT ![f] = CacheHitTask(task[f], r.result)]
            /\ UNCHANGED providerInstance
       ELSE /\ task' = [task EXCEPT ![f] = StartCall(task[f], 0)]
            /\ providerInstance' = "set"
  /\ UNCHANGED <<files, maxConcurrency, cacheEnabled, fallbackChain, apiKeyPresent,
                 providerConfigCache, mainPc, i, results, failedFiles, cache,
                 nonOrchVars>>

\* provider.generateContent resolves with a reply (lines 127-128, 134-136)
CallReturns(f) ==
  /\ mainPc = "batch"
  /\ task[f].pc = "calling"
  /\ \E text \in ReplyTexts :
       task' = [task EXCEPT ![f] = AfterAudit(task[f], ParseAuditResponse(text))]
  /\ UNCHANGED <<files, maxConcurrency, cacheEnabled, fallbackChain, apiKeyPresent,
                 providerConfigCache, providerInstance, mainPc, i, results,
                 failedFiles, cache, nonOrchVars>>

\* provider.generateContent rejects (withRetry's catch block)
CallThrows(f) ==
  /\ mainPc = "batch"
  /\ task[f].pc = "calling"
  /\ \E error \in ProviderErrors :
       IF RetryDecision(error, task[f].attempt, DefaultMaxAttempts) = "retry"
       THEN task' = [task EXCEPT ![f] = [task[f] EXCEPT !.pc = "backoff"]]
       ELSE \E configOk \in [1..Len(fallbackChain) -> BOOLEAN] :
              task' = [task EXCEPT ![f] = RetryThrows(task[f], error, configOk)]
  /\ UNCHANGED <<files, maxConcurrency, cacheEnabled, fallbackChain, apiKeyPresent,
                 providerConfigCache, providerInstance, mainPc, i, results,
                 failedFiles, cache, nonOrchVars>>

\* the backoff timer fires and the next attempt starts
BackoffDone(f) ==
  /\ mainPc = "batch"
  /\ task[f].pc = "backoff"
  /\ task' = [task EXCEPT ![f] = [task[f] EXCEPT !.pc = "calling",
                                                   !.attempt = task[f].attempt + 1,
                                                   !.calls = task[f].calls + 1]]
  /\ UNCHANGED <<files, maxConcurrency, cacheEnabled, fallbackChain, apiKeyPresent,
                 providerConfigCache, providerInstance, mainPc, i, results,
                 failedFiles, cache, nonOrchVars>>

\* writeCachedAuditResult resolves, or rejects into the closure's catch
\* block (lines 214-235)
WriteDone(f) ==
  /\ mainPc = "batch"
  /\ task[f].pc = "writing"
  /\ \E ioOk \in BOOLEAN :
       IF ioOk
       THEN /\ cache' = WriteCachedAuditResult(cache, KeyOfFile(files[f]), task[f].result)
            /\ task' = [task EXCEPT ![f] =
                         Settled(task[f], task[f].result, FALSE, TRUE, "live", TRUE)]
       ELSE /\ cache' = cache
            /\ task' = [task EXCEPT ![f] =
                         Settled(task[f], NoResult, FALSE, FALSE, "live", FALSE)]
  /\ UNCHANGED <<files, maxConcurrency, cacheEnabled, fallbackChain, apiKeyPresent,
                 providerConfigCache, providerInstance, mainPc, i, results, failedFiles,
                 nonOrchVars>>

\* Promise.allSettled resolves: the batch's results are collected and the
\* loop starts the next batch or returns (lines 239-279)
JoinBatch ==
  /\ mainPc = "batch"
  /\ AllSettled(i)
  /\ LET last == Min(i + maxConcurrency, NFiles)
         joined == [f \in DOMAIN task |->
                      IF f \in Batch(i, maxConcurrency, NFiles) /\ task[f].pc = "settled"
                      THEN JoinedTask ELSE task[f]]
     IN /\ results' = results \o Pushed(i + 1, last, TRUE)
        /\ failedFiles' = failedFiles \o Pushed(i + 1, last, FALSE)
        /\ i' = i + maxConcurrency
        /\ IF i + maxConcurrency < NFiles
           THEN /\ mainPc' = "batch"
                /\ task' = StartBatch(joined, i + maxConcurrency)
                /\ providerInstance' = IF cacheEnabled THEN providerInstance ELSE "set"
           ELSE /\ mainPc' = "done"
                /\ task' = joined
                /\ UNCHANGED providerInstance
  /\ UNCHANGED <<files, maxConcurrency, cacheEnabled, fallbackChain, apiKeyPresent,
                 providerConfigCache, cache, nonOrchVars>>

Next ==
  \/ Start
  \/ \E f \in 1..NFiles : ReadDone(f)
  \/ \E f \in 1..NFiles : CallReturns(f)
  \/ \E f \in 1..NFiles : CallThrows(f)
  \/ \E f \in 1..NFiles : BackoffDone(f)
  \/ \E f \in 1..NFiles : WriteDone(f)
  \/ JoinBatch


(***************************************************************************)
(* withRetry (utils/retry.ts) run on its own: fn resolves with the number  *)
(* of its invocation or rejects with any error of ErrorPool.               *)
(***************************************************************************)
ValueOutcome(k) == [kind |-> "value", index |-> k, error |-> NoError]
ErrorOutcome(k, error) == [kind |-> "error", index |-> k, error |-> error]

\* withRetry(fn, {maxAttempts}) is called and fn is invoked for attempt 1
InitRetry ==
  /\ NonRetryIdle
  /\ rMax \in 1..MaxAttemptsOpt
  /\ rAttempt = 1
  /\ rPc = "calling"
  /\ rLog = <<>>
  /\ rOutcome = NoOutcome

\* line 46: fn resolves and withRetry returns its value
RetryFnReturns ==
  /\ rPc = "calling"
  /\ rLog' = Append(rLog, ValueOutcome(Len(rLog) + 1))
  /\ rOutcome' = ValueOutcome(Len(rLog) + 1)
  /\ rPc' = "returned"
  /\ UNCHANGED <<rMax, rAttempt, nonRetryVars>>

\* lines 47-55: fn rejects; withRetry rethrows or starts the backoff
RetryFnThrows ==
  /\ rPc = "calling"
  /\ \E error \in ErrorPool :
       /\ rLog' = Append(rLog, ErrorOutcome(Len(rLog) + 1, error))
       /\ IF RetryDecision(error, rAttempt, rMax) = "throw"
          THEN rPc' = "thrown" /\ rOutcome' = ErrorOutcome(Len(rLog) + 1, error)
          ELSE rPc' = "sleeping" /\ rOutcome' = rOutcome
  /\ UNCHANGED <<rMax, rAttempt, nonRetryVars>>

\* line 55 and the loop increment: the backoff ends, fn is invoked again
RetrySleepDone ==
  /\ rPc = "sleeping"
  /\ rAttempt' = rAttempt + 1
  /\ rPc' = "calling"
  /\ UNCHANGED <<rMax, rLog, rOutcome, nonRetryVars>>

NextRetry == RetryFnReturns \/ RetryFnThrows \/ RetrySleepDone

(***************************************************************************)
(* buildAuditCacheKey (services/ai/cache.ts) applied to the inputs of two  *)
(* audits that differ in at most MaxChanges components.                    *)
(***************************************************************************)
\* component values: strings of at most one character
KeyStrings == {<<>>, <<":">>, <<"a">>}

InitKey ==
  /\ NonKeyIdle
  /\ kA \in [KeyFields -> KeyStrings]
  /\ kB = kA
  /\ kChanges = 0

\* the second audit differs from the first in one more component
ChangeComponent ==
  /\ kChanges < MaxChanges
  /\ \E fld \in KeyFields, v \in KeyStrings :
       /\ kB[fld] = kA[fld]
       /\ v # kA[fld]
       /\ kB' = [kB EXCEPT ![fld] = v]
  /\ kChanges' = kChanges + 1
  /\ UNCHANGED <<kA, nonKeyVars>>

NextKey == ChangeComponent

(***************************************************************************)
(* parseAuditResponse applied to one reply text, and its result written    *)
(* to the cache and read back (index.ts 210-215, cache.ts 40-68).          *)
(***************************************************************************)
\* status values a reply object may carry; "none": no status field
NormStatuses == {"PASS", "FAIL", "ERROR", "WARN", "none"}

IssueSeverities == {"CRITICAL", "WARNING", "INFO"}

\* the issues a reply object may list: severity as the provider wrote it,
\* line as it wrote it, message ("none": the issue has no message field)
MkIssue(line, severity, message) == [severity |-> severity, line |-> line, message |-> message]

RawIssues ==
  {MkIssue(1, "BLOCKER", "test"), MkIssue(-10, "INFO", "test"), MkIssue(1, "INFO", "none"),
   MkIssue(2, "WARNING", "valid"), MkIssue(2, "CRITICAL", "valid")}

IssueLists == UNION {[1..n -> RawIssues] : n \in 0..MaxIssues}

\* the JSON objects a reply may hold; hasIssues: the issues field is there
NormObjects ==
  {[status |-> st, message |-> NoMsg, hasIssues |-> h, issues |-> is] :
     st \in NormStatuses, h \in BOOLEAN, is \in IssueLists} \
  {o \in [status : NormStatuses, message : {NoMsg}, hasIssues : {FALSE},
          issues : IssueLists] : o.issues # <<>>}

NormTexts ==
  {MkText(f, k, o) : f \in BOOLEAN, k \in {"object", "embedded"}, o \in NormObjects}
    \cup {MkText(f, k, NoResult) : f \in BOOLEAN, k \in {"nonobject", "null", "garbage"}}

InitNorm ==
  /\ NonNormIdle
  /\ nText \in NormTexts
  /\ nResult = NoResult
  /\ nStore = [k \in {NormKey} |-> MissingEntry]
  /\ nRead = CacheMiss
  /\ nPc = "input"

\* auditFile: return parseAuditResponse(response) (index.ts 128)
Normalize ==
  /\ nPc = "input"
  /\ nResult' = ParseAuditResponse(nText)
  /\ nPc' = "parsed"
  /\ UNCHANGED <<nText, nStore, nRead, nonNormVars>>

\* the closure writes the result to the cache (index.ts 213-215)
NormCacheWrite ==
  /\ nPc = "parsed"
  /\ ShouldWriteCache(TRUE, nResult)
  /\ nStore' = WriteCachedAuditResult(nStore, NormKey, nResult)
  /\ nPc' = "written"
  /\ UNCHANGED <<nText, nResult, nRead, nonNormVars>>

\* a later run reads the entry (index.ts 195)
NormCacheRead ==
  /\ nPc = "written"
  /\ nRead' = ReadCachedAuditResult(nStore[NormKey])
  /\ nPc' = "read"
  /\ UNCHANGED <<nText, nResult, nStore, nonNormVars>>

NextNorm == Normalize \/ NormCacheWrite \/ NormCacheRead

(***************************************************************************)
(* The review command (cli/review.ts): pure helpers.                       *)
(***************************************************************************)
REDACTION_MARKER == "<REDACTED_SECRET>"

DEFAULT_TOKEN_LIMIT == 100000

\* PROVIDER_TOKEN_LIMITS; 0: the provider is not in the table
ProviderTokenLimit(provider) ==
  CASE provider = "gemini" -> 1000000
    [] provider = "openai" -> 128000
    [] provider = "anthropic" -> 200000
    [] OTHER -> 0

ResolveTokenLimit(provider, configOverride) ==
  IF configOverride > 0 THEN configOverride
  ELSE IF provider # "none" /\ ProviderTokenLimit(provider) > 0
       THEN ProviderTokenLimit(provider)
       ELSE DEFAULT_TOKEN_LIMIT

\* a text is a sequence of tokens; encoder.encode(text).length
EstimateTokens(text) == Len(text)

RECURSIVE SumTokens(_)
SumTokens(fs) ==
  IF fs = <<>> THEN 0 ELSE EstimateTokens(Head(fs).content) + SumTokens(Tail(fs))

WarnIfTokenLimitExceededStrict(total, limit) == total > limit

WarnIfTokenLimitExceeded(total, limit) == total >= limit

\* Math.floor(limit * warnAt) with the default warnAt = 0.8, for a whole
\* number of tokens as limit
WarnThreshold(limit) == (limit * 8) \div 10

\* whether warnIfTokenLimitExceeded logs the "consider reducing" warning
\* before it returns false
WarnsNearLimit(total, limit) == ~(total >= limit) /\ total >= WarnThreshold(limit)

\* systemPromptTokens: 0 when no system prompt was passed
GeneratePayloadSummary(fs, tokenLimit, systemPromptTokens) ==
  LET total == SumTokens(fs) + systemPromptTokens IN
  [exceeded |-> WarnIfTokenLimitExceeded(total, tokenLimit), total |-> total]

\* A content is a sequence of tokens written one after the other:
\*   "code"   text that begins and ends with white space or punctuation
\*   "word"   letters and digits
\*   "akia"   the shape of an AWS access key id, AKIA and 16 capitals or digits
\*   "secret" the shape of a token of a later pattern (ghp_ and 36 characters)
\*   REDACTION_MARKER
\* the token begins and ends with a character of [A-Za-z0-9/+=]
KeyCharEdges(token) == token \in {"word", "akia", "secret"}

\* /(?<![A-Za-z0-9/+=])AKIA[0-9A-Z]{16}(?![A-Za-z0-9/+=])/g matches at k
AwsKeyMatches(content, k) ==
  /\ content[k] = "akia"
  /\ k > 1 => ~KeyCharEdges(content[k - 1])
  /\ k < Len(content) => ~KeyCharEdges(content[k + 1])

\* /ghp_[A-Za-z0-9]{36}/g matches at k
TokenMatches(content, k) == content[k] = "secret"

\* sanitized.replace(pattern, REDACTION_MARKER) and matches.length, for
\* the places hits where the pattern matches
ReplaceMatches(content, hits) ==
  [content |-> [k \in DOMAIN content |->
                  IF k \in hits THEN REDACTION_MARKER ELSE content[k]],
   count |-> Cardinality(hits)]

\* the patterns are applied one after the other, each to the result of the
\* one before: the AWS access key id first, the token patterns after it
SanitizeContent(content) ==
  LET first == ReplaceMatches(content, {k \in DOMAIN content : AwsKeyMatches(content, k)})
      second == ReplaceMatches(first.content,
                               {k \in DOMAIN first.content : TokenMatches(first.content, k)})
  IN  [content |-> second.content, redactedCount |-> first.count + second.count]

SanitizeFilesRaw(fs) ==
  [k \in DOMAIN fs |-> [path |-> fs[k].path, content |-> fs[k].content]]

SanitizeFiles(fs) ==
  [k \in DOMAIN fs |->
     [path |-> fs[k].path, content |-> SanitizeContent(fs[k].content).content]]

\* the paths of redactionReport
RedactionReport(fs) ==
  {fs[k].path : k \in {j \in DOMAIN fs : SanitizeContent(fs[j].content).redactedCount > 0}}

CreateSecurityOnlyResults(fs, redacted) ==
  [k \in DOMAIN fs |->
     [filePath |-> fs[k].path,
      result |-> IF fs[k].path \in redacted
                 THEN [status |-> "FAIL", message |-> "Matched patterns", hasIssues |-> TRUE,
                       issues |-> <<"CRITICAL">>]
                 ELSE [status |-> "PASS", message |-> "AI disabled", hasIssues |-> TRUE,
                       issues |-> <<>>]]]

ResolveFormat(raw) == IF raw \in {"console", "json", "markdown"} THEN raw ELSE "throw"

SelectorCount(sel) ==
  Cardinality({m \in {"staged", "commit", "range", "files"} : sel[m]})

ResolveTargetNoCheck(sel) ==
  IF sel.staged THEN "staged"
  ELSE IF sel.commit THEN "commit"
  ELSE IF sel.range THEN "range"
  ELSE IF sel.files THEN "files"
  ELSE "range"

\* the mode of the ReviewTarget, or "throw" for the UserError
ResolveTarget(sel) ==
  IF SelectorCount(sel) > 1 THEN "throw" ELSE ResolveTargetNoCheck(sel)

\* resolveAIEnabled with the default true for every target
ResolveAIEnabledAnyTarget(setting, mode) == setting # "off"

\* setting: the first that is defined of the --ai flag, MP_SENTINEL_AI and
\* config.ai.enabled ("unset": none is)
ResolveAIEnabled(setting, mode) ==
  IF setting = "on" THEN TRUE
  ELSE IF setting = "off" THEN FALSE
  ELSE mode # "staged"

\* results.reduce(acc + issues.filter(severity).length)
RECURSIVE CountSeverity(_, _)
CountSeverity(rs, severity) ==
  IF rs = <<>> THEN 0
  ELSE Cardinality({j \in DOMAIN Head(rs).result.issues :
                      Head(rs).result.issues[j] = severity})
       + CountSeverity(Tail(rs), severity)

\* buildReport with a FAIL result taking precedence over an ERROR result
BuildReportAnyError(rs, errors) ==
  IF errors # <<>> THEN "ERROR"
  ELSE IF \E k \in DOMAIN rs : rs[k].result.status = "FAIL" THEN "FAIL"
  ELSE IF \E k \in DOMAIN rs : rs[k].result.status = "ERROR" THEN "ERROR"
  ELSE "PASS"

\* the status of the report buildReport returns
BuildReport(rs, errors) ==
  LET criticalIssues == CountSeverity(rs, "CRITICAL")
      warningIssues == CountSeverity(rs, "WARNING")
      hasRuntimeErrors == errors # <<>> \/ \E k \in DOMAIN rs : rs[k].result.status = "ERROR"
      hasFindings == \/ \E k \in DOMAIN rs : rs[k].result.status = "FAIL"
                     \/ criticalIssues > 0
                     \/ warningIssues > 0
  IN IF hasRuntimeErrors THEN "ERROR" ELSE IF hasFindings THEN "FAIL" ELSE "PASS"

ExitCodeAlwaysZero(status) == 0

\* runReview's return value for a rendered report
ExitCode(status) == IF status = "PASS" THEN 0 ELSE IF status = "FAIL" THEN 1 ELSE 2

(***************************************************************************)
(* The review command: one run of runReview under run().                   *)
(***************************************************************************)
ReviewSelectors == [staged : BOOLEAN, commit : BOOLEAN, range : BOOLEAN, files : BOOLEAN]

ReviewFormats == {"console", "xml"}

\* token-limit overrides of the environment or the configuration (0: none)
TokenOverrides == {0, 2, 3}

\* raw patches: token sequences, some holding a secret
PatchContents == {<<"code">>, <<"code", "secret">>}

ProviderNames == {"gemini", "openai", "anthropic", "none"}

\* what auditFilesWithConcurrency may report for one file
ReviewOutcomes ==
  {[status |-> "PASS", message |-> NoMsg, hasIssues |-> TRUE, issues |-> <<>>],
   [status |-> "PASS", message |-> NoMsg, hasIssues |-> TRUE, issues |-> <<"INFO">>],
   [status |-> "PASS", message |-> NoMsg, hasIssues |-> TRUE, issues |-> <<"WARNING">>],
   [status |-> "FAIL", message |-> NoMsg, hasIssues |-> TRUE, issues |-> <<"CRITICAL">>],
   [status |-> "ERROR", message |-> ErrorAuditingMsg, hasIssues |-> TRUE, issues |-> <<>>]}

\* the results of the files the orchestrator returns a result for (pick
\* NoResult: the file is left out of the returned list)
RECURSIVE AuditResultsOf(_, _, _)
AuditResultsOf(fs, pick, k) ==
  IF k > Len(fs) THEN <<>>
  ELSE (IF pick[k] = NoResult THEN <<>>
        ELSE <<[filePath |-> fs[k].path, result |-> pick[k]]>>)
       \o AuditResultsOf(fs, pick, k + 1)

InitReview ==
  /\ NonReviewIdle
  /\ vSel \in ReviewSelectors
  /\ vFormat \in ReviewFormats
  /\ vDryRun \in BOOLEAN
  /\ vAiSetting \in {"on", "off", "unset"}
  /\ vOverride \in TokenOverrides
  /\ vPc = "start"
  /\ vStages = {}
  /\ vPatches = <<>> /\ vEstimated = <<>> /\ vSent = <<>>
  /\ vTotal = 0 /\ vLimit = 0
  /\ vResults = <<>> /\ vErrors = <<>>
  /\ vReport = "none"
  /\ vExit = -1

reviewInputs == <<vSel, vFormat, vDryRun, vAiSetting, vOverride>>

\* a rejection of runReview reaches run().catch (index.ts 718-729)
ReviewThrows ==
  /\ vPc' = "threw"
  /\ vExit' = 2
  /\ UNCHANGED <<vStages, vPatches, vEstimated, vSent, vTotal, vLimit, vResults, vErrors,
                 vReport>>

\* buildReport, renderReport and the final return (lines 350-365)
ReviewReports(rs, errors) ==
  /\ vResults' = rs
  /\ vErrors' = errors
  /\ vReport' = BuildReport(rs, errors)
  /\ vExit' = ExitCode(BuildReport(rs, errors))
  /\ vPc' = "done"

\* the early returns with an empty report (lines 250-254, 273-286)
ReviewEmptyReport ==
  /\ vReport' = BuildReport(<<>>, <<>>)
  /\ vExit' = 0
  /\ vPc' = "done"
  /\ UNCHANGED <<vResults, vErrors>>

AiEnabled == IF vDryRun THEN FALSE ELSE ResolveAIEnabled(vAiSetting, ResolveTarget(vSel))

\* lines 228-249: format and target are resolved, the listing starts
ReviewStart ==
  /\ vPc = "start"
  /\ IF ResolveFormat(vFormat) = "throw" \/ ResolveTarget(vSel) = "throw"
     THEN ReviewThrows
     ELSE /\ vPc' = "listing"
          /\ vStages' = {"list"}
          /\ UNCHANGED <<vPatches, vEstimated, vSent, vTotal, vLimit, vResults, vErrors,
                         vReport, vExit>>
  /\ UNCHANGED <<reviewInputs, nonReviewVars>>

\* listFilesForTarget resolves; it catches every error of git and yields
\* the empty list then (lines 249-257)
ListDone ==
  /\ vPc = "listing"
  /\ \E outcome \in {"empty", "some"} :
       CASE outcome = "empty" ->
              /\ ReviewEmptyReport
              /\ UNCHANGED <<vStages, vPatches, vEstimated, vSent, vTotal, vLimit>>
         [] outcome = "some" ->
              /\ vPc' = "filtering"
              /\ vStages' = vStages \cup {"filter"}
              /\ UNCHANGED <<vPatches, vEstimated, vSent, vTotal, vLimit, vResults, vErrors,
                             vReport, vExit>>
  /\ UNCHANGED <<reviewInputs, nonReviewVars>>

\* filterPathsWithIgnores resolves (lines 257-269)
FilterDone ==
  /\ vPc = "filtering"
  /\ vPc' = "collecting"
  /\ vStages' = vStages \cup {"collect"}
  /\ UNCHANGED <<vPatches, vEstimated, vSent, vTotal, vLimit, vResults, vErrors,
                 vReport, vExit>>
  /\ UNCHANGED <<reviewInputs, nonReviewVars>>

\* collectReviewInput resolves; the files are sanitized and handed to the
\* estimator, or the run ends (lines 263-320, 346-365)
CollectDone ==
  /\ vPc = "collecting"
  /\ \E n \in 0..MaxReviewFiles : \E ps \in [1..n -> PatchContents] :
          LET patches == [k \in 1..n |-> [path |-> <<PathChars[k]>>, content |-> ps[k]]]
              sanitizedFiles == SanitizeFiles(patches)
          IN /\ vPatches' = patches
             /\ IF n = 0
                THEN /\ ReviewEmptyReport
                     /\ UNCHANGED <<vStages, vEstimated, vSent, vTotal, vLimit>>
                ELSE IF AiEnabled \/ vDryRun
                THEN /\ vPc' = "estimating"
                     /\ vStages' = vStages \cup {"redact", "estimate"}
                     /\ vEstimated' = sanitizedFiles
                     /\ UNCHANGED <<vSent, vTotal, vLimit, vResults, vErrors, vReport, vExit>>
                ELSE /\ vStages' = vStages \cup {"redact"}
                     /\ ReviewReports(
                          CreateSecurityOnlyResults(sanitizedFiles, RedactionReport(patches)),
                          <<>>)
                     /\ UNCHANGED <<vEstimated, vSent, vTotal, vLimit>>
  /\ UNCHANGED <<reviewInputs, nonReviewVars>>

\* generatePayloadSummary resolves: dry-run preview, budget abort, or the
\* audit starts (lines 298-341)
EstimateDone ==
  /\ vPc = "estimating"
  /\ \E provider \in ProviderNames, systemPromptTokens \in {0, 1} :
       LET tokenLimit == ResolveTokenLimit(provider, vOverride)
           summary == GeneratePayloadSummary(vEstimated, tokenLimit, systemPromptTokens)
           sanitizedFiles == SanitizeFiles(vPatches)
       IN /\ vTotal' = summary.total
          /\ vLimit' = tokenLimit
          /\ IF vDryRun
             THEN /\ ReviewReports(
                       CreateSecurityOnlyResults(sanitizedFiles, RedactionReport(vPatches)),
                       <<>>)
                  /\ UNCHANGED <<vStages, vSent>>
             ELSE IF summary.exceeded
             THEN /\ vPc' = "aborted"
                  /\ vExit' = 2
                  /\ UNCHANGED <<vStages, vSent, vResults, vErrors, vReport>>
             ELSE /\ vPc' = "auditing"
                  /\ vStages' = vStages \cup {"provider"}
                  /\ vSent' = sanitizedFiles
                  /\ UNCHANGED <<vResults, vErrors, vReport, vExit>>
  /\ UNCHANGED <<reviewInputs, vPatches, vEstimated, nonReviewVars>>

\* auditFilesWithConcurrency resolves or rejects; the report is built
\* (lines 336-365)
AuditDone ==
  /\ vPc = "auditing"
  /\ \/ ReviewReports(<<>>, <<"AI runtime error">>)
     \/ \E pick \in [1..Len(vSent) -> ReviewOutcomes \cup {NoResult}] :
          ReviewReports(AuditResultsOf(vSent, pick, 1), <<>>)
  /\ UNCHANGED <<reviewInputs, vStages, vPatches, vEstimated, vSent, vTotal, vLimit,
                 nonReviewVars>>

NextReview ==
  ReviewStart \/ ListDone \/ FilterDone \/ CollectDone \/ EstimateDone \/ AuditDone

(***************************************************************************)
(* The diff collector (utils/git.ts).  A patch is the sequence of its      *)
(* lines, each line given by what its first characters are.                *)
(***************************************************************************)
\* "add" starts with "+", "del" with "-", "hdr" with "+++ " or "--- ",
\* "ctx" is any other text, "bin" contains "Binary files "
PatchLineKinds == {"add", "del", "hdr", "ctx", "bin"}

PatchPool == UNION {[1..n -> PatchLineKinds] : n \in 0..MaxPatchLines}

TRUNCATION_MARKER == "# [truncated by mp-sentinel maxCharsPerFile]"

RECURSIVE CountLines(_, _)
CountLines(patch, kind) ==
  IF patch = <<>> THEN 0
  ELSE (IF Head(patch) = kind THEN 1 ELSE 0) + CountLines(Tail(patch), kind)

CountPatchChanges(patch) ==
  LET additions == CountLines(patch, "add")
      deletions == CountLines(patch, "del")
  IN  [additions |-> additions, deletions |-> deletions,
       changedLines |-> additions + deletions]

IsBinaryPatch(patch) == \E k \in DOMAIN patch : patch[k] = "bin"

PathRank(path) == CHOOSE k \in DOMAIN PathChars : PathChars[k] = path

\* Array.from(new Set(paths)).sort(localeCompare)
RECURSIVE SortPaths(_)
SortPaths(S) ==
  IF S = {} THEN <<>>
  ELSE LET first == CHOOSE x \in S : \A y \in S : PathRank(x) <= PathRank(y)
       IN  <<first>> \o SortPaths(S \ {first})

\* Array.from(new Set(paths)) without the sort: the first occurrences
RECURSIVE FirstOccurrences(_)
FirstOccurrences(filePaths) ==
  IF filePaths = <<>> THEN <<>>
  ELSE LET front == SubSeq(filePaths, 1, Len(filePaths) - 1)
           last == filePaths[Len(filePaths)]
       IN  IF \E k \in DOMAIN front : front[k] = last
           THEN FirstOccurrences(front)
           ELSE Append(FirstOccurrences(front), last)

\* the sort without the Set: every occurrence is kept
RECURSIVE UniqueFilesKeepDuplicates(_)
UniqueFilesKeepDuplicates(filePaths) ==
  IF filePaths = <<>> THEN <<>>
  ELSE LET at == CHOOSE k \in DOMAIN filePaths :
                   \A j \in DOMAIN filePaths :
                     PathRank(filePaths[k]) <= PathRank(filePaths[j])
           rest == [n \in 1..(Len(filePaths) - 1) |->
                      IF n < at THEN filePaths[n] ELSE filePaths[n + 1]]
       IN  <<filePaths[at]>> \o UniqueFilesKeepDuplicates(rest)

UniqueFiles(filePaths) == SortPaths({filePaths[k] : k \in DOMAIN filePaths})

\* the maxDiffLines guardrail without the running total
ExceedsDiffLinesPerFile(total, changed, maxDiffLines) == changed > maxDiffLines

\* the maxDiffLines guardrail with >= for >
ExceedsDiffLinesInclusive(total, changed, maxDiffLines) == total + changed >= maxDiffLines

ExceedsDiffLines(total, changed, maxDiffLines) == total + changed > maxDiffLines

\* the cut without the marker
TruncatePatchNoMarker(patch, maxCharsPerFile) == SubSeq(patch, 1, maxCharsPerFile)

\* finalPatch.slice(0, maxCharsPerFile) + marker
TruncatePatch(patch, maxCharsPerFile) ==
  SubSeq(patch, 1, maxCharsPerFile) \o <<TRUNCATION_MARKER>>

MaxFilesSkips(uniqueFiles, limit) ==
  IF Len(uniqueFiles) > limit
  THEN [k \in 1..(Len(uniqueFiles) - limit) |->
          [path |-> uniqueFiles[limit + k], reason |-> "maxFiles"]]
  ELSE <<>>

CandidatePaths == {PathChars[k] : k \in 1..3}

CandidateLists == UNION {[1..n -> CandidatePaths] : n \in 0..MaxCandidates}

MaxCharsChoices == {1, 3}

InitCollect ==
  /\ cInput \in CandidateLists
  /\ cMaxFiles \in 1..MaxGuardFiles
  /\ cMaxDiffLines \in 1..MaxGuardLines
  /\ cMaxChars \in MaxCharsChoices
  /\ cFiles = <<>> /\ cIdx = 0 /\ cAccepted = <<>> /\ cSkipped = <<>>
  /\ cTotal = 0 /\ cPc = "start"
  /\ NonCollectIdle

\* collectReviewInput up to the first await of getPatchForFile
CollectStart ==
  /\ cPc = "start"
  /\ cFiles' = UniqueFiles(cInput)
  /\ cSkipped' = MaxFilesSkips(cFiles', cMaxFiles)
  /\ cIdx' = 1
  /\ cPc' = IF cFiles' = <<>> THEN "done" ELSE "patching"
  /\ UNCHANGED <<cInput, cMaxFiles, cMaxDiffLines, cMaxChars, cAccepted, cTotal,
                 nonCollectVars>>

\* the body of the loop for one file whose diff is patch, with the
\* running total so far: the reason of the skip ("none": accepted), the
\* accepted entry without its path, finalPatch and the new running total
ReviewPatch(patch, total, maxDiffLines, maxCharsPerFile) ==
  LET stats == CountPatchChanges(patch)
      reason ==
        IF patch = <<>> THEN "empty"
        ELSE IF IsBinaryPatch(patch) THEN "binary"
        ELSE IF stats.changedLines = 0 THEN "unchanged"
        ELSE IF ExceedsDiffLines(total, stats.changedLines, maxDiffLines)
             THEN "maxDiffLines"
        ELSE "none"
      truncated == Len(patch) > maxCharsPerFile
      finalPatch == IF truncated THEN TruncatePatch(patch, maxCharsPerFile) ELSE patch
  IN  [reason |-> reason,
       finalPatch |-> IF reason = "none" THEN finalPatch ELSE <<>>,
       additions |-> stats.additions, deletions |-> stats.deletions,
       changedLines |-> stats.changedLines,
       truncated |-> reason = "none" /\ truncated,
       total |-> IF reason = "none" THEN total + stats.changedLines ELSE total]

\* getPatchForFile resolves with patch; the rest of the loop body runs
PatchDone ==
  /\ cPc = "patching"
  /\ \E patch \in PatchPool :
       LET path == cFiles[cIdx]
           out == ReviewPatch(patch, cTotal, cMaxDiffLines, cMaxChars)
       IN  /\ cTotal' = out.total
           /\ IF out.reason = "none"
              THEN /\ cAccepted' = Append(cAccepted,
                        [path |-> path, patchLen |-> Len(out.finalPatch),
                         changedLines |-> out.changedLines, truncated |-> out.truncated])
                   /\ UNCHANGED cSkipped
              ELSE /\ cSkipped' = Append(cSkipped, [path |-> path, reason |-> out.reason])
                   /\ UNCHANGED cAccepted
  /\ cIdx' = cIdx + 1
  /\ cPc' = IF cIdx' > Min(Len(cFiles), cMaxFiles) THEN "done" ELSE "patching"
  /\ UNCHANGED <<cInput, cMaxFiles, cMaxDiffLines, cMaxChars, cFiles, nonCollectVars>>

NextCollect ==
  \/ CollectStart
  \/ PatchDone

(***************************************************************************)
(* The file filter (services/file-handler).  A path is given by its        *)
(* normalized name and by whether it was written with a leading "./".      *)
(***************************************************************************)
\* "a.ts" passes every filter; "b.png" has no allowed extension;
\* "credentials.json" is a blocked file name; "gen.ts" matches a rule of
\* .gitignore when that file holds rules
FilterNames == <<".env", "a.ts", "b.png", "credentials.json", "gen.ts">>

MkPath(name, dotSlash) == [name |-> name, dotSlash |-> dotSlash]

FilterCandidates == {MkPath(FilterNames[k], d) : k \in DOMAIN FilterNames, d \in BOOLEAN}

\* relative(cwd, resolve(cwd, p))
RelativePath(path) == MkPath(path.name, FALSE)

\* filterPaths without the path normalization
RawPaths(paths) == paths

RelativePaths(paths) == [k \in DOMAIN paths |-> RelativePath(paths[k])]

IsAllowedExtension(path) == path.name \in {"a.ts", "credentials.json", "gen.ts"}

IsBlockedFile(path) == path.name \in {".env", "credentials.json"}

Ignores(ignoreFilter, path) == ignoreFilter = "rules" /\ path.name \in {".env", "gen.ts"}

\* the checks with the extension check before the ignore check
ClassifyExtensionFirst(ignoreFilter, relPath) ==
  IF ~IsAllowedExtension(relPath) THEN "extension not in allowlist"
  ELSE IF Ignores(ignoreFilter, relPath) THEN "ignored (.gitignore / .archignore)"
  ELSE IF IsBlockedFile(relPath) THEN "blocked (sensitive file)"
  ELSE "accepted"

\* "accepted", or the reason of the rejection
Classify(ignoreFilter, relPath) ==
  IF Ignores(ignoreFilter, relPath) THEN "ignored (.gitignore / .archignore)"
  ELSE IF ~IsAllowedExtension(relPath) THEN "extension not in allowlist"
  ELSE IF IsBlockedFile(relPath) THEN "blocked (sensitive file)"
  ELSE "accepted"

\* the place of a path in the order of the strings: "./" sorts before letters
NameRank(path) ==
  (CHOOSE k \in DOMAIN FilterNames : FilterNames[k] = path.name)
    + (IF path.dotSlash THEN 0 ELSE Len(FilterNames))

\* the path of an element of accepted or (isEntry) of rejected
ItemPath(item, isEntry) == IF isEntry THEN item.path ELSE item

\* Array.prototype.sort by path; equal paths keep their order
RECURSIVE SortByPath(_, _)
SortByPath(items, isEntry) ==
  IF items = <<>> THEN <<>>
  ELSE LET Rank(n) == NameRank(ItemPath(items[n], isEntry))
           first == CHOOSE a \in DOMAIN items :
                      \A b \in DOMAIN items :
                        Rank(a) < Rank(b) \/ (Rank(a) = Rank(b) /\ a <= b)
           rest == [n \in 1..(Len(items) - 1) |->
                      IF n < first THEN items[n] ELSE items[n + 1]]
       IN  <<items[first]>> \o SortByPath(rest, isEntry)

RECURSIVE ClassifyLoop(_, _, _, _)
ClassifyLoop(filePaths, ignoreFilter, accepted, rejected) ==
  IF filePaths = <<>> THEN [accepted |-> accepted, rejected |-> rejected]
  ELSE LET relPath == Head(filePaths)
           verdict == Classify(ignoreFilter, relPath)
       IN  IF verdict = "accepted"
           THEN ClassifyLoop(Tail(filePaths), ignoreFilter, Append(accepted, relPath), rejected)
           ELSE ClassifyLoop(Tail(filePaths), ignoreFilter, accepted,
                             Append(rejected, [path |-> relPath, reason |-> verdict]))

ClassifyFiles(filePaths, ignoreFilter) ==
  LET split == ClassifyLoop(filePaths, ignoreFilter, <<>>, <<>>)
  IN  [accepted |-> SortByPath(split.accepted, FALSE),
       rejected |-> SortByPath(split.rejected, TRUE),
       stats |-> [total |-> Len(filePaths), accepted |-> Len(split.accepted),
                  rejected |-> Len(split.rejected)]]

FilterPaths(paths, ignoreFilter) == ClassifyFiles(RelativePaths(paths), ignoreFilter)

FilterInputs == UNION {[1..n -> FilterCandidates] : n \in 0..MaxFilterPaths}

InitFilter ==
  /\ fPaths \in FilterInputs
  /\ fIgnore = "null" /\ fAccepted = <<>> /\ fRejected = <<>>
  /\ fPc = "init"
  /\ NonFilterIdle

\* await this.initIgnoreFilter(): the ignore files hold rules or not
InitIgnoreFilter ==
  /\ fPc = "init"
  /\ fIgnore' \in {"null", "rules"}
  /\ fPc' = "filter"
  /\ UNCHANGED <<fPaths, fAccepted, fRejected, nonFilterVars>>

\* return this.filterPaths(paths)
FilterPathsReturns ==
  /\ fPc = "filter"
  /\ LET result == FilterPaths(fPaths, fIgnore)
     IN  /\ fAccepted' = result.accepted
         /\ fRejected' = result.rejected
  /\ fPc' = "done"
  /\ UNCHANGED <<fPaths, fIgnore, nonFilterVars>>

NextFilter ==
  \/ InitIgnoreFilter
  \/ FilterPathsReturns

(***************************************************************************)
(* The secret redactor run on a content and on its own output.             *)
(***************************************************************************)
ContentTokens == {"code", "word", "akia", "secret", REDACTION_MARKER}

Contents == UNION {[1..n -> ContentTokens] : n \in 0..MaxTokens}

InitRedact ==
  /\ sInput \in Contents
  /\ sOnce = NoSanitization /\ sTwice = NoSanitization
  /\ sPc = "input"
  /\ NonRedactIdle

SanitizeOnce ==
  /\ sPc = "input"
  /\ sOnce' = SanitizeContent(sInput)
  /\ sPc' = "once"
  /\ UNCHANGED <<sInput, sTwice, nonRedactVars>>

SanitizeAgain ==
  /\ sPc = "once"
  /\ sTwice' = SanitizeContent(sOnce.content)
  /\ sPc' = "twice"
  /\ UNCHANGED <<sInput, sOnce, nonRedactVars>>

NextRedact ==
  \/ SanitizeOnce
  \/ SanitizeAgain

(***************************************************************************)
(* The loop of collectReviewInput over at most maxFiles files.             *)
(***************************************************************************)
InitLoop ==
  /\ pMaxDiffLines \in 1..MaxGuardLines
  /\ pMaxChars \in MaxCharsChoices
  /\ pCount = 0 /\ pBefore = 0 /\ pPatch = <<>> /\ pOut = NoReview /\ pTotal = 0
  /\ NonLoopIdle

\* one turn of the loop: getPatchForFile resolves with patch and the body
\* runs
LoopTurn ==
  /\ pCount < MaxGuardFiles
  /\ \E patch \in PatchPool :
       LET out == ReviewPatch(patch, pTotal, pMaxDiffLines, pMaxChars)
       IN  /\ pPatch' = patch
           /\ pOut' = out
           /\ pTotal' = out.total
  /\ pBefore' = pTotal
  /\ pCount' = pCount + 1
  /\ UNCHANGED <<pMaxDiffLines, pMaxChars, nonLoopVars>>

NextLoop == LoopTurn

(***************************************************************************)
(* warnIfTokenLimitExceeded over small totals and limits.                  *)
(***************************************************************************)
MaxLimit == 10
MaxTotal == 12

InitBudget ==
  /\ bTotal \in 0..MaxTotal
  /\ bLimit \in 1..MaxLimit
  /\ bExceeded = FALSE /\ bWarned = FALSE /\ bPc = "start"
  /\ NonBudgetIdle

BudgetCheck ==
  /\ bPc = "start"
  /\ bExceeded' = WarnIfTokenLimitExceeded(bTotal, bLimit)
  /\ bWarned' = WarnsNearLimit(bTotal, bLimit)
  /\ bPc' = "done"
  /\ UNCHANGED <<bTotal, bLimit, nonBudgetVars>>

NextBudget == BudgetCheck

(***************************************************************************)
(* auditFile on its own.                                                   *)
(***************************************************************************)
AuditChains == {[j \in 1..k |-> FallbackNames[((j - 1) % 3) + 1]] : k \in 0..MaxChain}

\* what generateContent may reject with: a rate limit, the abort of the
\* call's own timeout, an invalid key
AuditErrors == {Err429, ErrAbort, ErrInvalidKey}

AuditReplies ==
  ReplyTexts \cup {GarbageText, MkText(FALSE, "object", MkResult("ERROR", NoMsg)),
                   MkText(TRUE, "embedded", MkResult("WARN", NoMsg))}

InitAudit ==
  /\ aChain \in AuditChains
  /\ aInitOk \in BOOLEAN
  /\ aud = IdleAudit
  /\ NonAuditIdle

\* withRetry(() => provider.generateContent(...)): the first attempt
AuditCall(a, prov) ==
  [a EXCEPT !.pc = "calling", !.prov = prov, !.attempt = 1, !.calls[prov] = a.calls[prov] + 1]

AuditReturn(a, result) == [a EXCEPT !.pc = "returned", !.result = result]

\* tryFallbackProviders from position j on with the fallbacks in reverse
\* order of the chain
RECURSIVE AuditFallbacksReversed(_, _, _)
AuditFallbacksReversed(a, j, configOk) ==
  LET k == Len(aChain) + 1 - j IN
  IF j > Len(aChain) THEN AuditReturn(a, ErrorResult)
  ELSE IF ~configOk[k]
       THEN AuditFallbacksReversed([a EXCEPT !.unavailable = @ \cup {k}], j + 1, configOk)
  ELSE AuditCall(a, k)

\* tryFallbackProviders from position j on (72-89): the catch block skips
\* a provider whose configuration or construction throws; past the end it
\* returns null and auditFile returns the ERROR result (141-145)
RECURSIVE AuditFallbacks(_, _, _)
AuditFallbacks(a, j, configOk) ==
  IF j > Len(aChain) THEN AuditReturn(a, ErrorResult)
  ELSE IF ~configOk[j]
       THEN AuditFallbacks([a EXCEPT !.unavailable = @ \cup {j}], j + 1, configOk)
  ELSE AuditCall(a, j)

\* line 124 and the first attempt (127)
AuditStart ==
  /\ aud.pc = "start"
  /\ aud' = IF aInitOk THEN AuditCall(aud, 0) ELSE [aud EXCEPT !.pc = "threw"]
  /\ UNCHANGED <<aChain, aInitOk, nonAuditVars>>

\* generateContent resolves: parseAuditResponse(response) is returned
\* (128, 136)
AuditCallReturns ==
  /\ aud.pc = "calling"
  /\ \E text \in AuditReplies :
       aud' = [AuditReturn(aud, ParseAuditResponse(text)) EXCEPT
                 !.reply = text, !.replyFrom = aud.prov]
  /\ UNCHANGED <<aChain, aInitOk, nonAuditVars>>

\* generateContent rejects: withRetry backs off or throws; a throw of the
\* primary leads to the fallbacks or to the ERROR result (129-146), a throw
\* of a fallback to the next fallback (84-87)
AuditCallThrows ==
  /\ aud.pc = "calling"
  /\ \E error \in AuditErrors :
       IF RetryDecision(error, aud.attempt, DefaultMaxAttempts) = "retry"
       THEN aud' = [aud EXCEPT !.pc = "backoff"]
       ELSE \E configOk \in [1..Len(aChain) -> BOOLEAN] :
              IF aud.prov = 0
              THEN LET a1 == [aud EXCEPT !.primaryError = error] IN
                   aud' = IF ShouldFallback(aChain, error)
                          THEN AuditFallbacks(a1, 1, configOk)
                          ELSE AuditReturn(a1, ErrorResult)
              ELSE aud' = AuditFallbacks(aud, aud.prov + 1, configOk)
  /\ UNCHANGED <<aChain, aInitOk, nonAuditVars>>

\* the backoff timer fires: the next attempt
AuditBackoffDone ==
  /\ aud.pc = "backoff"
  /\ aud' = [aud EXCEPT !.pc = "calling", !.attempt = aud.attempt + 1,
                        !.calls[aud.prov] = aud.calls[aud.prov] + 1]
  /\ UNCHANGED <<aChain, aInitOk, nonAuditVars>>

NextAudit ==
  \/ AuditStart
  \/ AuditCallReturns
  \/ AuditCallThrows
  \/ AuditBackoffDone

(***************************************************************************)
(* The sibling provider calls of one batch and their timeouts.             *)
(***************************************************************************)
InitTimeout ==
  /\ sib = [c \in 1..NumSiblings |-> IdleSibling]
  /\ NonTimeoutIdle

\* one AbortController shared by the calls of the batch
AbortTargetsShared(c) == 1..NumSiblings

\* the invocations whose signal controller.abort() of call c aborts:
\* generateContent creates its own controller
AbortTargets(c) == {c}

\* the invocation of call t rejected with error: clearTimeout, then
\* withRetry's catch block
InvocationRejects(t, error) ==
  IF RetryDecision(error, t.attempt, DefaultMaxAttempts) = "retry"
  THEN [t EXCEPT !.pc = "sleeping", !.timer = "cleared"]
  ELSE [t EXCEPT !.pc = "rejected", !.timer = "cleared", !.error = error]

\* the timer of call c fires: controller.abort() rejects the pending fetch
\* with an AbortError
TimerFires(c) ==
  /\ sib[c].pc = "fetching" /\ sib[c].timer = "armed"
  /\ sib' = [d \in 1..NumSiblings |->
               IF d \in AbortTargets(c) /\ sib[d].pc = "fetching"
               THEN [InvocationRejects(sib[d], ErrAbort) EXCEPT !.aborts = sib[d].aborts + 1]
               ELSE sib[d]]
  /\ UNCHANGED nonTimeoutVars

\* the provider answers in time
FetchResolves(c) ==
  /\ sib[c].pc = "fetching"
  /\ sib' = [sib EXCEPT ![c] = [sib[c] EXCEPT !.pc = "resolved", !.timer = "cleared"]]
  /\ UNCHANGED nonTimeoutVars

\* the provider answers with an error status in time
FetchRejects(c) ==
  /\ sib[c].pc = "fetching"
  /\ \E error \in ProviderErrors :
       sib' = [sib EXCEPT ![c] = InvocationRejects(sib[c], error)]
  /\ UNCHANGED nonTimeoutVars

\* the backoff is over: the next invocation, with a new controller and timer
SleepDone(c) ==
  /\ sib[c].pc = "sleeping"
  /\ sib' = [sib EXCEPT ![c] = [sib[c] EXCEPT !.pc = "fetching", !.timer = "armed",
                                               !.attempt = sib[c].attempt + 1]]
  /\ UNCHANGED nonTimeoutVars

NextTimeout ==
  \/ \E c \in 1..NumSiblings : TimerFires(c)
  \/ \E c \in 1..NumSiblings : FetchResolves(c)
  \/ \E c \in 1..NumSiblings : FetchRejects(c)
  \/ \E c \in 1..NumSiblings : SleepDone(c)

(***************************************************************************)
(* Audits of one file under one cache key, cache enabled.                  *)
(***************************************************************************)
InitRace ==
  /\ wr = [w \in 1..NumWriters |-> IdleWriter]
  /\ wEntry = MissingEntry
  /\ wLog = <<>>
  /\ NonRaceIdle

\* readCachedAuditResult resolves (195-208)
RaceReadDone(w) ==
  /\ wr[w].pc = "reading"
  /\ LET r == ReadCachedAuditResult(wEntry) IN
       wr' = [wr EXCEPT ![w] = IF r.hit
                               THEN [pc |-> "done", result |-> r.result, cached |-> TRUE]
                               ELSE [wr[w] EXCEPT !.pc = "calling"]]
  /\ UNCHANGED <<wEntry, wLog, nonRaceVars>>

\* auditFile returns (210-215)
RaceAuditReturns(w) ==
  /\ wr[w].pc = "calling"
  /\ \E result \in {ParseAuditResponse(text) : text \in ReplyTexts} \cup {ErrorResult} :
       wr' = [wr EXCEPT ![w] = [wr[w] EXCEPT !.result = result,
                                             !.pc = IF ShouldWriteCache(TRUE, result)
                                                    THEN "writing" ELSE "done"]]
  /\ UNCHANGED <<wEntry, wLog, nonRaceVars>>

\* writeCachedAuditResult resolves (cache.ts 59-68)
RaceWriteDone(w) ==
  /\ wr[w].pc = "writing"
  /\ wEntry' = FileEntry(JsonStringify(wr[w].result))
  /\ wLog' = Append(wLog, wr[w].result)
  /\ wr' = [wr EXCEPT ![w] = [wr[w] EXCEPT !.pc = "done"]]
  /\ UNCHANGED nonRaceVars

NextRace ==
  \/ \E w \in 1..NumWriters : RaceReadDone(w)
  \/ \E w \in 1..NumWriters : RaceAuditReturns(w)
  \/ \E w \in 1..NumWriters : RaceWriteDone(w)

(***************************************************************************)
(* Specifications.                                                         *)
(***************************************************************************)
\* one run of auditFilesWithConcurrency
Spec == Init /\ [][Next]_vars

\* the whole audit run when every pending call, timer and file operation
\* settles
SpecLive == Init /\ [][Next]_vars /\ WF_vars(Next)

\* one call of withRetry
SpecRetry == InitRetry /\ [][NextRetry]_vars

\* two cache keys
SpecKey == InitKey /\ [][NextKey]_vars

\* one reply normalized, cached and read back
SpecNorm == InitNorm /\ [][NextNorm]_vars

\* one run of the review command
SpecReview == InitReview /\ [][NextReview]_vars

\* one call of collectReviewInput
SpecCollect == InitCollect /\ [][NextCollect]_vars

\* one call of filterPathsWithIgnores
SpecFilter == InitFilter /\ [][NextFilter]_vars

\* the redactor run twice on one content
SpecRedact == InitRedact /\ [][NextRedact]_vars

\* the loop of collectReviewInput, file by file
SpecLoop == InitLoop /\ [][NextLoop]_vars

\* the budget check on its own
SpecBudget == InitBudget /\ [][NextBudget]_vars

\* auditFile on its own
SpecAudit == InitAudit /\ [][NextAudit]_vars

\* the sibling calls of a batch and their timeouts
SpecTimeout == InitTimeout /\ [][NextTimeout]_vars

\* audits of one file under one key
SpecRace == InitRace /\ [][NextRace]_vars

(***************************************************************************)
(* Properties.                                                             *)
(***************************************************************************)
Active(t) == t.pc \in {"reading", "calling", "backoff", "writing"}

\* the 0-based number of the batch file f belongs to
BatchNo(f) == (f - 1) \div maxConcurrency

\* C1: at every instant of a run the number of provider calls in flight
\* (primary or fallback, first attempts or retries) is at most
\* maxConcurrency.
C1_InFlightBounded == InFlight <= maxConcurrency

C1_Witness ==
  /\ mainPc = "batch" /\ NFiles = 3 /\ maxConcurrency = 2
  /\ InFlight = 2
  /\ \E f, g \in 1..NFiles :
       /\ task[f].pc = "calling" /\ task[f].prov > 0
       /\ task[g].pc = "calling" /\ task[g].prov = 0 /\ task[g].attempt > 1

\* C2: files are processed in consecutive batches of at most maxConcurrency
\* files, and no file of a later batch starts (cache read or provider call)
\* before every file of the preceding batches has settled.
C2_BatchBarrier ==
  /\ \A f, g \in 1..NFiles :
       (BatchNo(f) < BatchNo(g) /\ task[g].pc # "pending")
         => task[f].pc \in {"settled", "joined"}
  /\ \A f, g \in 1..NFiles :
       (Active(task[f]) /\ Active(task[g])) => BatchNo(f) = BatchNo(g)
  /\ Cardinality({f \in 1..NFiles : Active(task[f])}) <= maxConcurrency

C2_Witness ==
  /\ mainPc = "batch" /\ NFiles = 3 /\ maxConcurrency = 2 /\ i = 2
  /\ task[3].pc = "calling"
  /\ task[1].pc = "joined" /\ task[2].pc = "joined"
  /\ Len(results) = 1 /\ Len(failedFiles) = 1

\* C3: the list returned by auditFilesWithConcurrency holds exactly one
\* FileAuditResult for every input file, none omitted and none duplicated.
C3_OneResultPerFile ==
  mainPc = "done" =>
    /\ Len(results) = NFiles
    /\ \A f \in 1..NFiles :
         Cardinality({k \in DOMAIN results : results[k].filePath = files[f].path}) = 1

\* C4: a failure while auditing one file changes nothing of its siblings
\* and does not stop the run: the step in which a file fails leaves every
\* other closure and the result list as they were, the join of a batch
\* keeps the result of every successful member whatever happened to the
\* others, and the run ends only when every batch has been joined.
TaskFailed(t) == ~t.ok \/ t.result.status = "ERROR"

C4_Step ==
  /\ \A f \in 1..NFiles :
       (Active(task[f]) /\ task'[f].pc = "settled" /\ TaskFailed(task'[f]))
         => /\ \A g \in 1..NFiles \ {f} : task'[g] = task[g]
            /\ results' = results
            /\ mainPc' = mainPc
  /\ (mainPc = "batch" /\ i' # i)
       => /\ \A g \in 1..NFiles :
               (BatchNo(g) = i \div maxConcurrency /\ task[g].ok)
                 => \E k \in DOMAIN results' :
                      results'[k] = [filePath |-> files[g].path, result |-> task[g].result,
                                     cached |-> task[g].cached]
          /\ (i + maxConcurrency < NFiles) => mainPc' = "batch"
  /\ (mainPc' = "done") => \A f \in 1..NFiles : task'[f].pc = "joined"

C4_FailureIsolated == [][C4_Step]_vars

C4_Witness ==
  /\ mainPc = "done" /\ NFiles = 3 /\ maxConcurrency = 2
  /\ \E k1, k2, k3 \in DOMAIN results :
       /\ results[k1].filePath = files[1].path /\ results[k1].result.status = "ERROR"
       /\ results[k2].filePath = files[2].path /\ results[k2].result.status = "PASS"
       /\ ~results[k2].cached
       /\ results[k3].filePath = files[3].path

\* C5 as stated: a primary call that fails with a non-retryable error is
\* terminal at once, so exactly one provider call is made for the file and
\* its result is ERROR.
PrimaryFailsTerminal(f) ==
  /\ task[f].pc = "calling" /\ task[f].prov = 0
  /\ task'[f].primaryError # NoError
  /\ ~IsRetryableError(task'[f].primaryError)

C5_Original ==
  [][\A f \in 1..NFiles :
       PrimaryFailsTerminal(f)
         => /\ task[f].calls = 1
            /\ task'[f].pc = "settled" /\ task'[f].result.status = "ERROR"]_vars

\* C5 amended: a primary call that fails with a non-retryable error is
\* terminal at once: no retry and no fallback follows, the calls made for
\* the file are the primary attempts up to the failing one (exactly one
\* when the first attempt fails), and the result is ERROR.
C5_Step ==
  /\ \A f \in 1..NFiles :
       PrimaryFailsTerminal(f)
         => /\ task'[f].pc = "settled" /\ task'[f].result.status = "ERROR"
            /\ task'[f].ok /\ ~task'[f].cached
            /\ task[f].calls = task[f].attempt
            /\ task[f].attempt <= DefaultMaxAttempts
  /\ \A f \in 1..NFiles :
       task[f].pc = "settled" => task'[f].pc \in {"settled", "joined"}

C5_TerminalNoRetryNoFallback == [][C5_Step]_vars

C5_Witness ==
  \E f \in 1..NFiles :
    /\ task[f].pc = "settled" /\ task[f].primaryError = ErrInvalidKey
    /\ task[f].result.status = "ERROR"
    /\ Len(fallbackChain) > 0

\* C6: withRetry invokes fn until the first invocation that succeeds or
\* fails with a non-retryable error, at most maxAttempts times, and its
\* outcome is the outcome of the last invocation.
Decisive(outcome) == outcome.kind = "value" \/ ~IsRetryableError(outcome.error)

C6_RetryCount ==
  /\ Len(rLog) <= rMax
  /\ \A j \in 1..(Len(rLog) - 1) : ~Decisive(rLog[j])
  /\ rPc \in {"returned", "thrown"} =>
       /\ Len(rLog) >= 1
       /\ Decisive(rLog[Len(rLog)]) \/ Len(rLog) = rMax
       /\ rOutcome = rLog[Len(rLog)]
       /\ (rPc = "returned") <=> (rLog[Len(rLog)].kind = "value")
  /\ rPc = "sleeping" => (Len(rLog) < rMax /\ ~Decisive(rLog[Len(rLog)]))
  /\ rPc = "calling" => Len(rLog) = rAttempt - 1

C6_Witness ==
  /\ rPc = "thrown" /\ rMax = 3 /\ Len(rLog) = 3
  /\ rOutcome.kind = "error" /\ IsRetryableError(rOutcome.error)

\* C7: a FileAuditResult has cached = true exactly when its result was read
\* from the cache, and then no provider call was made for the file; a
\* result of a live call has cached = false.
C7_CachedIffFromCache ==
  \A f \in 1..NFiles :
    (task[f].pc = "settled" /\ task[f].ok) =>
      /\ task[f].cached <=> (task[f].source = "cache")
      /\ task[f].cached => ~task[f].called
      /\ ~task[f].cached => (task[f].source = "live" /\ task[f].called)

C7_Witness ==
  \E f, g \in 1..NFiles :
    /\ task[f].pc = "settled" /\ task[f].cached /\ task[f].result.status = "PASS"
    /\ task[g].pc = "settled" /\ task[g].ok /\ ~task[g].cached

\* C8: with caching enabled, a live result whose status is not ERROR is in
\* the cache under the file's key when the file's FileAuditResult is
\* returned.
KeyOfPath(path) == KeyOfFile([path |-> path, content |-> <<"x">>])

C8_WrittenBeforeReturned ==
  /\ \A f \in 1..NFiles :
       (task[f].pc = "settled" /\ task[f].ok /\ ~task[f].cached /\ cacheEnabled
          /\ task[f].result.status # "ERROR")
         => /\ task[f].wrote
            /\ cache[KeyOfFile(files[f])] = FileEntry(JsonStringify(task[f].result))
  /\ \A k \in DOMAIN results :
       (~results[k].cached /\ cacheEnabled /\ results[k].result.status # "ERROR")
         => cache[KeyOfPath(results[k].filePath)] = FileEntry(JsonStringify(results[k].result))

C8_Witness ==
  \E f \in 1..NFiles :
    /\ task[f].pc = "settled" /\ task[f].wrote /\ task[f].result.status = "FAIL"
    /\ cache[KeyOfFile(files[f])] = FileEntry(JsonStringify(task[f].result))

\* C9: reading an entry that is missing, unreadable, unparseable or fails
\* normalization is a miss: such an entry is never returned as a hit.
WellFormedEntry(entry) ==
  /\ entry.exists
  /\ JsonParses(CleanJSON(entry.text))
  /\ entry.text.kind = "object"
  /\ entry.text.obj.status \in {"PASS", "FAIL", "ERROR"}

C9_CorruptEntryIsMiss ==
  \A f \in 1..NFiles :
    (task[f].pc = "settled" /\ task[f].source = "cache")
      => WellFormedEntry(cache[KeyOfFile(files[f])])

\* C10: two audits resolve to the same cache entry only if provider, model,
\* promptVersion, toolVersion, filePath, systemPrompt and payload are all
\* equal.
C10_SameKeyOnlyIfEqual ==
  BuildAuditCacheKey(kA) = BuildAuditCacheKey(kB) => kA = kB

\* C11: cache round trip: when a result r written by the orchestrator under
\* a key is read back, the read is a hit whose status and issues are those
\* of r.
C11_CacheRoundTrip ==
  nPc = "read" =>
    /\ nRead.hit
    /\ nRead.result.status = nResult.status
    /\ nRead.result.issues = nResult.issues

\* C12: every payload handed to the budget estimator and every payload
\* handed to the provider calls is the redactor's output for that file;
\* the raw patch of a file holding a secret is never handed to either.
HandedSanitized(handed) ==
  handed # <<>> =>
    /\ Len(handed) = Len(vPatches)
    /\ \A k \in DOMAIN handed :
         /\ handed[k].path = vPatches[k].path
         /\ handed[k].content = SanitizeContent(vPatches[k].content).content
         /\ \A j \in DOMAIN handed[k].content : handed[k].content[j] # "secret"

C12_OnlyRedactedPayloads ==
  /\ HandedSanitized(vEstimated)
  /\ HandedSanitized(vSent)
  /\ "estimate" \in vStages => vEstimated # <<>>
  /\ "provider" \in vStages => vSent # <<>>

C12_Witness ==
  /\ vPc = "auditing"
  /\ \E k \in DOMAIN vPatches :
       /\ \E j \in DOMAIN vPatches[k].content : vPatches[k].content[j] = "secret"
       /\ vSent[k].content # vPatches[k].content
       /\ vEstimated[k].content # vPatches[k].content
       /\ \E j \in DOMAIN vSent[k].content : vSent[k].content[j] = REDACTION_MARKER

\* the budget estimate has been computed and is at or above the limit
OverBudget == vLimit > 0 /\ vTotal >= vLimit

\* C13 as stated: if the estimated token cost of the system prompt plus
\* all sanitized payloads is at or above the resolved limit, no provider
\* call is made and the run ends as "budget exceeded" with exit code 2.
C13_Original ==
  OverBudget =>
    /\ vSent = <<>> /\ "provider" \notin vStages
    /\ vPc = "aborted" /\ vExit = 2

\* C13 amended: at or above the limit no provider call is made; unless the
\* run is a dry run, it ends there with exit code 2 and without a report.
C13_BudgetAbort ==
  OverBudget =>
    /\ vSent = <<>> /\ "provider" \notin vStages
    /\ vResults = <<>> \/ vDryRun
    /\ ~vDryRun => (vPc = "aborted" /\ vExit = 2 /\ vReport = "none")

C13_Witness ==
  /\ vPc = "aborted" /\ vExit = 2 /\ ~vDryRun
  /\ vTotal = vLimit /\ Len(vEstimated) = 2

RECURSIVE SumChangedLines(_)
SumChangedLines(fs) ==
  IF fs = <<>> THEN 0
  ELSE Head(fs).changedLines + SumChangedLines(Tail(fs))

\* C14: for guardrails >= 1 and any candidate list and patches, the
\* collector never holds more than maxFiles accepted files, and the sum of
\* changedLines over the accepted files, which is totalChangedLines, never
\* exceeds maxDiffLines.
C14_Guardrails ==
  /\ Len(cAccepted) <= cMaxFiles
  /\ SumChangedLines(cAccepted) = cTotal
  /\ cTotal <= cMaxDiffLines

C14_Witness ==
  /\ cPc = "done"
  /\ Len(cAccepted) = 1 /\ cTotal = cMaxDiffLines /\ cMaxDiffLines = 2
  /\ \E k \in DOMAIN cSkipped : cSkipped[k].reason = "maxDiffLines"
  /\ \E k \in DOMAIN cSkipped : cSkipped[k].reason = "maxFiles"

HasIssue(rs, severities) ==
  \E k \in DOMAIN rs : \E j \in DOMAIN rs[k].result.issues :
    rs[k].result.issues[j] \in severities

C15_Status(rs, errors, severities) ==
  IF errors # <<>> \/ \E k \in DOMAIN rs : rs[k].result.status = "ERROR" THEN "ERROR"
  ELSE IF \/ \E k \in DOMAIN rs : rs[k].result.status = "FAIL"
          \/ HasIssue(rs, severities)
       THEN "FAIL"
  ELSE "PASS"

\* C15 as stated: the status of the report of a finished run is ERROR if a
\* runtime error occurred or a file result is ERROR; otherwise FAIL if a
\* file result is FAIL or any issue of any severity, INFO included, exists;
\* otherwise PASS.
C15_Original ==
  vPc = "done" => vReport = C15_Status(vResults, vErrors, IssueSeverities)

\* C15: the status of the report of a finished run is ERROR if a runtime
\* error occurred or a file result is ERROR; otherwise FAIL if a file result
\* is FAIL or an issue of severity CRITICAL or WARNING exists; otherwise
\* PASS.  Issues of severity INFO alone leave the status PASS.
C15_StatusPriority ==
  vPc = "done" => vReport = C15_Status(vResults, vErrors, {"CRITICAL", "WARNING"})

C15_Witness ==
  /\ vPc = "done" /\ vReport = "PASS" /\ vErrors = <<>>
  /\ HasIssue(vResults, {"INFO"})

ReviewEnded == vPc \in {"done", "threw", "aborted"}

C16_ByReport ==
  /\ vExit = 0 <=> vReport = "PASS"
  /\ vExit = 1 <=> vReport = "FAIL"
  /\ vReport = "ERROR" => vExit = 2

\* C16 as stated: a finished review run exits 0 exactly when the report
\* status is PASS, 1 exactly when it is FAIL, and 2 when the report status
\* is ERROR, when the selectors or the format were rejected, or when the
\* estimated payload reached the token limit.
C16_Original ==
  ReviewEnded =>
    /\ C16_ByReport
    /\ (vPc = "threw" \/ OverBudget) => vExit = 2

\* C16: a finished review run exits 0 exactly when the report status is
\* PASS, 1 exactly when it is FAIL, and 2 when the report status is ERROR,
\* when the selectors or the format were rejected, or when outside dry-run
\* mode the estimated payload reached the token limit.
C16_ExitContract ==
  ReviewEnded =>
    /\ C16_ByReport
    /\ (vPc = "threw" \/ (OverBudget /\ ~vDryRun)) => vExit = 2

C16_Witness ==
  /\ vPc = "done" /\ vReport = "FAIL" /\ vExit = 1
  /\ "provider" \in vStages
  /\ \E k \in DOMAIN vResults : vResults[k].result.status = "FAIL"

\* C17: parseAuditResponse returns, for every reply text, a result whose
\* status is PASS, FAIL or ERROR and whose issues field is present as an
\* array (empty when the reply had none).
C17_WellFormedResult ==
  nPc # "input" =>
    /\ nResult.status \in {"PASS", "FAIL", "ERROR"}
    /\ nResult.hasIssues

\* no JSON object is parsed from the reply, directly or by extraction
NoObjectParsed(text) == CleanJSON(text).kind \in {"nonobject", "null", "garbage"}

\* C18: when no JSON object can be parsed from a reply, or the parsed status
\* is not PASS, FAIL or ERROR, parseAuditResponse returns status ERROR; for
\* an unparseable reply the message is "Failed to parse AI response" and
\* issues is empty.
C18_ErrorOnBadReply ==
  nPc # "input" =>
    /\ (NoObjectParsed(nText) \/ nText.obj.status \notin {"PASS", "FAIL", "ERROR"})
         => nResult.status = "ERROR"
    /\ nText.kind = "garbage"
         => /\ nResult.message = FailedParseMsg
            /\ nResult.hasIssues /\ nResult.issues = <<>>

\* C19: a run given more than one of the selectors staged, commit, range,
\* files runs no pipeline stage (no listing, filtering, collection,
\* redaction, estimation or provider call), and once it has acted it has
\* been rejected with exit code 2.
C19_ConflictingSelectorsRejected ==
  SelectorCount(vSel) > 1 =>
    /\ vStages = {}
    /\ vPatches = <<>> /\ vEstimated = <<>> /\ vSent = <<>>
    /\ vPc # "start" => (vPc = "threw" /\ vExit = 2 /\ vReport = "none")

C19_Witness ==
  /\ SelectorCount(vSel) = 2 /\ vSel.staged /\ vSel.files
  /\ vFormat = "console"
  /\ vPc = "threw" /\ vExit = 2 /\ vStages = {}

Occurrences(seq, x) == Cardinality({k \in DOMAIN seq : seq[k] = x})

RejectedPaths == [k \in DOMAIN fRejected |-> fRejected[k].path]

OutputPaths == fAccepted \o RejectedPaths

C21_Idempotent == sPc = "twice" => sTwice.content = sOnce.content

\* attempt j failed and withRetry went on to a backoff and another attempt
Retried(j) == rLog[j].kind = "error" /\ (j < rAttempt \/ rPc = "sleeping")

\* the failure is a rate limit, a transient 5xx answer, a connection reset,
\* or an abort or timeout
C22_Transient(error) ==
  /\ error.isError
  /\ \/ Includes(error.message, "429")
     \/ \E code \in {"502", "503", "504"} : Includes(error.message, code)
     \/ Includes(error.message, "ECONNRESET")
     \/ Includes(error.message, "Timeout")
     \/ error.name = "AbortError"

InputSet == {cInput[k] : k \in DOMAIN cInput}

\* the number of distinct candidate paths that sort before path
SortsBefore(path) == Cardinality({q \in InputSet : PathRank(q) < PathRank(path)})

\* C23: the paths skipped with the maxFiles reason are exactly the distinct
\* candidate paths after the first maxFiles in sorted order, each once, and
\* only the first maxFiles are evaluated; so what is kept and what is
\* dropped is a function of the set of candidate paths, not of their order
\* or multiplicity in the input.
C23_StableMaxFilesSkips ==
  cPc # "start" =>
    /\ \A path \in InputSet :
         (\E k \in DOMAIN cSkipped : cSkipped[k] = [path |-> path, reason |-> "maxFiles"])
           <=> SortsBefore(path) >= cMaxFiles
    /\ \A k \in DOMAIN cSkipped :
         /\ cSkipped[k].path \in InputSet
         /\ cSkipped[k].reason # "maxFiles" => SortsBefore(cSkipped[k].path) < cMaxFiles
         /\ \A j \in DOMAIN cSkipped : cSkipped[j].path = cSkipped[k].path => j = k
    /\ \A k \in DOMAIN cAccepted :
         /\ cAccepted[k].path \in InputSet
         /\ SortsBefore(cAccepted[k].path) < cMaxFiles
         /\ \A j \in DOMAIN cSkipped : cSkipped[j].path # cAccepted[k].path

C23_Witness ==
  /\ cPc = "done" /\ cMaxFiles = 1
  /\ cInput = <<"b", "a", "b">>
  /\ cSkipped = <<[path |-> "b", reason |-> "maxFiles"]>>
  /\ Len(cAccepted) = 1 /\ cAccepted[1].path = "a"

\* the lines of the patch that begin with + or -, headers excluded
ChangedLinesOf(patch) == Cardinality({k \in DOMAIN patch : patch[k] \in {"add", "del"}})

\* the patch is a textual, non-binary diff with changed lines: it reaches
\* the maxDiffLines guardrail
ReachesGuardrail(patch) ==
  /\ patch # <<>>
  /\ \A k \in DOMAIN patch : patch[k] # "bin"
  /\ ChangedLinesOf(patch) > 0

\* C24: a file whose diff reaches the guardrail is skipped with the
\* maxDiffLines reason exactly when the running total of the accepted
\* files before it plus its own changed lines exceeds maxDiffLines; a
\* skipped file leaves the running total as it was, an accepted file adds
\* its changed lines.
C24_RunningTotal ==
  pCount > 0 =>
    /\ (pOut.reason = "maxDiffLines")
         <=> (ReachesGuardrail(pPatch) /\ pBefore + ChangedLinesOf(pPatch) > pMaxDiffLines)
    /\ pOut.reason # "none" => pTotal = pBefore
    /\ pOut.reason = "none" => pTotal = pBefore + ChangedLinesOf(pPatch)

C24_Witness ==
  /\ pCount = 2 /\ pMaxDiffLines = 2
  /\ pBefore = 1 /\ ChangedLinesOf(pPatch) = 2
  /\ pOut.reason = "maxDiffLines" /\ pTotal = 1

\* C25: a file is never skipped for the length of its diff.  An accepted
\* file whose diff is longer than maxCharsPerFile has truncated = true and
\* as patch the first maxCharsPerFile characters followed by the marker;
\* one whose diff fits has truncated = false and the diff unchanged; in both
\* cases additions, deletions and changedLines, and what is added to the
\* running total, are those of the whole diff.
C25_TruncatedNotSkipped ==
  pCount > 0 =>
    /\ (pOut.reason = "none")
         <=> (ReachesGuardrail(pPatch) /\ pBefore + ChangedLinesOf(pPatch) <= pMaxDiffLines)
    /\ pOut.reason = "none" =>
         /\ pOut.truncated <=> Len(pPatch) > pMaxChars
         /\ pOut.truncated =>
              /\ Len(pOut.finalPatch) = pMaxChars + 1
              /\ \A k \in 1..pMaxChars : pOut.finalPatch[k] = pPatch[k]
              /\ pOut.finalPatch[pMaxChars + 1] = TRUNCATION_MARKER
         /\ ~pOut.truncated => pOut.finalPatch = pPatch
         /\ pOut.additions = Cardinality({k \in DOMAIN pPatch : pPatch[k] = "add"})
         /\ pOut.deletions = Cardinality({k \in DOMAIN pPatch : pPatch[k] = "del"})
         /\ pOut.changedLines = ChangedLinesOf(pPatch)
         /\ pTotal = pBefore + ChangedLinesOf(pPatch)

C25_Witness ==
  /\ pCount > 0 /\ pMaxChars = 1 /\ pMaxDiffLines = 2
  /\ pPatch = <<"add", "del">>
  /\ pOut.reason = "none" /\ pOut.truncated
  /\ pOut.finalPatch = <<"add", TRUNCATION_MARKER>>
  /\ pOut.changedLines = 2 /\ pTotal = pBefore + 2

\* C26: the budget check has three outcomes settled by the ratio of the
\* estimated tokens to the limit: it is silent exactly when the total is
\* strictly below 80% of the limit, it warns and proceeds exactly from 80%
\* up to but excluding 100%, and it reports the limit as exceeded exactly at
\* or above 100%.
C26_ThreeOutcomes ==
  bPc = "done" =>
    /\ bExceeded <=> bTotal >= bLimit
    /\ (~bExceeded /\ bWarned) <=> (10 * bTotal >= 8 * bLimit /\ bTotal < bLimit)
    /\ (~bExceeded /\ ~bWarned) <=> 10 * bTotal < 8 * bLimit

\* C27: every issue of a normalized result has a severity among CRITICAL,
\* WARNING, INFO and a line that is an integer >= 1 (an invalid severity
\* having been replaced by WARNING, an invalid line by 1).
C27_IssuesCoerced ==
  nPc # "input" =>
    \A k \in DOMAIN nResult.issues :
      /\ nResult.issues[k].severity \in IssueSeverities
      /\ nResult.issues[k].line \in Nat \ {0}

\* the messages of the issues that have one, in order
RECURSIVE MessagesOf(_)
MessagesOf(issues) ==
  IF issues = <<>> THEN <<>>
  ELSE IF Head(issues).message = "none" THEN MessagesOf(Tail(issues))
       ELSE <<Head(issues).message>> \o MessagesOf(Tail(issues))

\* C28: the issues of the normalized result of a reply that holds an object
\* with a valid status are the reply's issues that have a message, in their
\* original order; an issue without a message is not among them.
C28_MessagelessDropped ==
  (nPc # "input" /\ nText.kind \in {"object", "embedded"}
     /\ nText.obj.status \in {"PASS", "FAIL"}) =>
    /\ Len(nResult.issues) = Len(MessagesOf(nText.obj.issues))
    /\ \A k \in DOMAIN nResult.issues :
         nResult.issues[k].message = MessagesOf(nText.obj.issues)[k]

\* the reasons with which a path was rejected
ReasonsOf(path) == {fRejected[k].reason : k \in {j \in DOMAIN fRejected : fRejected[j].path = path}}

\* C29: the three checks are made in the order ignore rule, extension
\* allowlist, sensitive-file pattern, and the first that matches settles
\* the reason: an ignored path is rejected as ignored whatever the other
\* checks say, a path not ignored whose extension is not allowed is
\* rejected for its extension even if it is a sensitive file, a path
\* passing the first two checks that is a sensitive file is rejected as
\* blocked, and a path is accepted exactly when no check matches; a
\* rejected path carries one reason only.
C29_OrderedChecks ==
  fPc = "done" =>
    \A k \in DOMAIN fPaths :
      LET rel == RelativePath(fPaths[k])
          ignored == Ignores(fIgnore, rel)
          badExt == ~IsAllowedExtension(rel)
          blocked == IsBlockedFile(rel)
      IN  /\ ignored => ReasonsOf(rel) = {"ignored (.gitignore / .archignore)"}
          /\ (~ignored /\ badExt) => ReasonsOf(rel) = {"extension not in allowlist"}
          /\ (~ignored /\ ~badExt /\ blocked) => ReasonsOf(rel) = {"blocked (sensitive file)"}
          /\ (Occurrences(fAccepted, rel) > 0) <=> (~ignored /\ ~badExt /\ ~blocked)
          /\ (~ignored /\ ~badExt /\ ~blocked) => ReasonsOf(rel) = {}

C29_Witness ==
  /\ fPc = "done" /\ fIgnore = "rules"
  /\ fPaths = <<MkPath(".env", FALSE), MkPath("credentials.json", FALSE)>>
  /\ fRejected = <<[path |-> MkPath(".env", FALSE), reason |-> "ignored (.gitignore / .archignore)"],
                   [path |-> MkPath("credentials.json", FALSE), reason |-> "blocked (sensitive file)"]>>
  /\ fAccepted = <<>>

\* one step of the run keeps the order of file f's audit
C30_Step(f) ==
  \* the cache is read at the start of the audit only, never after a call
  /\ (task'[f].pc = "reading" /\ task[f].pc # "reading")
       => (task[f].pc = "pending" /\ cacheEnabled /\ ~task[f].called)
  \* the first provider call starts when the read has resolved (with the
  \* cache disabled there is no read and the audit starts with the call)
  /\ (task'[f].called /\ ~task[f].called)
       => (task[f].pc = "reading" \/ (~cacheEnabled /\ task[f].pc = "pending"))
  /\ (task'[f].pc \in {"calling", "backoff"} /\ task[f].pc \notin {"calling", "backoff"})
       => (task'[f].called /\ ~task[f].called)
  \* the write starts when a provider call of this audit has returned
  /\ (task'[f].pc = "writing" /\ task[f].pc # "writing")
       => (task[f].pc = "calling" /\ task[f].called /\ cacheEnabled)
  \* and it is done from there only
  /\ (task'[f].wrote /\ ~task[f].wrote)
       => (task[f].pc = "writing" /\ task[f].called /\ cacheEnabled)

\* C30: within one file's audit the cache read precedes every provider
\* call and every provider call precedes the cache write: a read starts an
\* audit, the first call starts when the read has resolved, the write
\* starts when a call has returned, and an entry of the cache changes only
\* by the write of an audit that has read and called.
C30_AuditOrder ==
  [][/\ task' # task => \A f \in 1..NFiles : task'[f] # task[f] => C30_Step(f)
     /\ cache' # cache =>
          \A key \in CacheKeys :
            cache'[key] # cache[key]
              => \E f \in 1..NFiles :
                   /\ KeyOfFile(files[f]) = key
                   /\ task[f].pc = "writing" /\ task[f].called /\ cacheEnabled
                   /\ task'[f].wrote]_vars

C30_Witness ==
  /\ cacheEnabled
  /\ \E f \in 1..NFiles :
       /\ task[f].pc = "settled" /\ task[f].called /\ task[f].wrote
       /\ task[f].source = "live"
       /\ WellFormedEntry(cache[KeyOfFile(files[f])])

\* the fallbacks of the chain, by position
Fallbacks == 1..Len(aChain)

\* C31: a fallback provider is called only after the primary provider has
\* used up its attempts and failed with a retryable error; the fallbacks
\* are taken one at a time in the order of the chain (a fallback is reached
\* only when each one before it was unavailable or has failed); every
\* provider has its own count of at most maxAttempts attempts; and the
\* reply of the first fallback that resolves is the one parsed and
\* returned, no later fallback having been called.
C31_FallbackOrder ==
  /\ \A j \in Fallbacks :
       (aud.calls[j] > 0 \/ j \in aud.unavailable) =>
         /\ aud.calls[0] = DefaultMaxAttempts
         /\ IsRetryableError(aud.primaryError)
         /\ \A k \in 1..(j - 1) : aud.calls[k] > 0 \/ k \in aud.unavailable
         /\ j <= aud.prov \/ aud.pc = "returned"
  /\ \A j \in 0..MaxChain :
       /\ aud.calls[j] <= DefaultMaxAttempts
       /\ (j > aud.prov \/ j > Len(aChain)) => (aud.calls[j] = 0 \/ aud.pc = "returned")
  /\ aud.pc \in {"calling", "backoff"} =>
       /\ aud.attempt = aud.calls[aud.prov]
       /\ \A j \in Fallbacks : j > aud.prov => aud.calls[j] = 0 /\ j \notin aud.unavailable
  /\ (aud.pc = "returned" /\ aud.replyFrom >= 0) =>
       /\ aud.result = ParseAuditResponse(aud.reply)
       /\ aud.calls[aud.replyFrom] > 0
       /\ \A k \in Fallbacks : k > aud.replyFrom => aud.calls[k] = 0 /\ k \notin aud.unavailable

C31_Witness ==
  /\ Len(aChain) = 2 /\ aud.pc = "returned"
  /\ aud.calls[0] = DefaultMaxAttempts
  /\ aud.calls[1] = DefaultMaxAttempts
  /\ aud.calls[2] = 2
  /\ aud.replyFrom = 2 /\ aud.result.status = "PASS"

\* C32: auditFile never throws, whatever the primary and the fallback
\* providers do and even if the primary provider cannot be initialised; it
\* returns an AuditResult, which has status ERROR and an empty issues list
\* when the primary and every fallback are exhausted.
C32_NeverThrows ==
  /\ aud.pc # "threw"
  /\ (aud.pc = "returned" /\ aud.replyFrom = -1) =>
       /\ aud.result.status = "ERROR"
       /\ aud.result.hasIssues /\ aud.result.issues = <<>>

\* the step aborts an invocation of call c
AbortedInStep(c) == sib'[c].aborts = sib[c].aborts + 1

WellFormedReply(text) ==
  text.kind \in {"object", "embedded"} /\ text.obj.status \in {"PASS", "FAIL"}

\* C34: the result of auditFile has status ERROR only when no provider
\* supplied a reply (the primary and the fallbacks failed) or the reply
\* supplied is not well formed; a well-formed reply yields a result with
\* the reply's own status, never ERROR.
C34_ErrorReserved ==
  aud.pc = "returned" =>
    /\ aud.result.status = "ERROR"
         => (aud.replyFrom = -1 \/ ~WellFormedReply(aud.reply))
    /\ (aud.replyFrom >= 0 /\ WellFormedReply(aud.reply))
         => /\ aud.result.status = aud.reply.obj.status
            /\ aud.result.status # "ERROR"

C34_Witness ==
  /\ aud.pc = "returned" /\ aud.replyFrom = 1
  /\ aud.reply = MkText(TRUE, "object", MkResult("FAIL", NoMsg))
  /\ aud.result.status = "FAIL"

\* C35: any two writes made under the same cache key carry the same value,
\* so the entry read back afterwards is the value of every writer.
C35_SameKeySameValue ==
  /\ \A j, k \in DOMAIN wLog : wLog[j] = wLog[k]
  /\ \A w \in 1..NumWriters :
       (wr[w].pc = "done" /\ ~wr[w].cached /\ ShouldWriteCache(TRUE, wr[w].result))
         => wEntry = FileEntry(JsonStringify(wr[w].result))

\* AI review is off for this run: a dry run, an explicit "off", or a staged
\* target with nothing set
AiOff ==
  \/ vDryRun
  \/ vAiSetting = "off"
  \/ (vAiSetting = "unset" /\ vSel.staged)

\* the run went through the redactor and was not stopped by the budget
ReviewedFiles == vPc = "done" /\ vPatches # <<>>

\* C36: AI review is off by default for a staged target unless forced on
\* and on by default for every other target.  When it is off, or the run
\* is a dry run, nothing is handed to the audit orchestrator (which makes
\* the provider calls and the cache reads and writes) and the result of a
\* file is FAIL with one CRITICAL issue if its patch was redacted and PASS
\* with no issue otherwise; when it is on the files go to the orchestrator.
C36_AiOffNoProvider ==
  (vPc \notin {"start", "threw"}) =>
    /\ AiOff =>
         /\ "provider" \notin vStages /\ vSent = <<>>
         /\ ReviewedFiles =>
              /\ Len(vResults) = Len(vPatches) /\ vErrors = <<>>
              /\ \A k \in DOMAIN vPatches :
                   /\ vResults[k].filePath = vPatches[k].path
                   /\ IF SanitizeContent(vPatches[k].content).redactedCount > 0
                      THEN /\ vResults[k].result.status = "FAIL"
                           /\ vResults[k].result.issues = <<"CRITICAL">>
                      ELSE /\ vResults[k].result.status = "PASS"
                           /\ vResults[k].result.issues = <<>>
    /\ (~AiOff /\ ReviewedFiles) => ("provider" \in vStages /\ vSent # <<>>)

C36_Witness ==
  /\ vSel.staged /\ vAiSetting = "unset" /\ ~vDryRun
  /\ vPc = "done" /\ Len(vPatches) = 2 /\ vSent = <<>>
  /\ vResults[1].result.status = "FAIL" /\ vResults[2].result.status = "PASS"

\* C37: every cache entry written by the orchestrator holds a result whose
\* status is PASS or FAIL; none holds a result with status ERROR.
C37_OnlyVerdictsCached ==
  nStore[NormKey].exists =>
    /\ nStore[NormKey].text = JsonStringify(nResult)
    /\ nResult.status # "ERROR"
    /\ nResult.status \in {"PASS", "FAIL"}

\* the most provider calls one file's audit can make
CallBound == DefaultMaxAttempts * (1 + Len(fallbackChain))

\* the run has returned or rejected
RunEnded == mainPc \in {"done", "rejected"}

\* C38: the provider calls made for a file never exceed maxAttempts times
\* (1 + the number of fallback providers), and a file answered from the
\* cache has had none; every run whose calls all settle comes to its end.
C38_BoundedCallsAndTermination ==
  /\ [](\A f \in 1..NFiles :
          /\ task[f].calls <= CallBound
          /\ task[f].attempt <= DefaultMaxAttempts
          /\ task[f].cached => (~task[f].called /\ task[f].calls = 0))
  /\ <>RunEnded

C38_Witness ==
  /\ Len(fallbackChain) = 1
  /\ \E f \in 1..NFiles :
       /\ task[f].pc = "calling" /\ task[f].prov = 1
       /\ task[f].attempt = DefaultMaxAttempts
       /\ task[f].calls = CallBound

\* how many entries of files and of skipped a path has
CollectorEntries(path) ==
  Cardinality({k \in DOMAIN cAccepted : cAccepted[k].path = path})
    + Cardinality({k \in DOMAIN cSkipped : cSkipped[k].path = path})

C40_Step(f) ==
  (task[f].pc = "calling" /\ task'[f].pc = "writing") => task[f].prov = 0

\* C40: every result stored under a key built from provider P and model M
\* was produced by a call to P with M: a reply of a fallback provider is
\* never handed to the write under the primary provider's key.
C40_KeyMatchesProducer == [][\A f \in 1..NFiles : C40_Step(f)]_vars

====
